---- MODULE Spec2Model ----
(***************************************************************************)
(* socialX: the scheduled-post publication pipeline.                       *)
(*                                                                         *)
(* processScheduledPosts (the batch orchestrator) selects the due posts,   *)
(* dispatches one attempt per entry of post.platforms, joins them with     *)
(* Promise.allSettled, aggregates, saves the post, increments the owner's  *)
(* postsCount and, when anything in that sequence throws, does one         *)
(* recovery save.  The actions follow that function's awaits: an action    *)
(* is the code that runs when an awaited operation resolves, up to the     *)
(* next await (the loop head, with its budget check and the dispatch of    *)
(* the next post, is an action of its own).  A store write takes effect    *)
(* in the action in which its await resolves.                              *)
(*                                                                         *)
(* Time: the wall clock (scheduledTime, now) is counted in minutes, the    *)
(* time elapsed inside one run (startTime, the 5 s Twitter timer, the      *)
(* execution budget) in seconds.  The source's millisecond constants are   *)
(* divided accordingly.                                                    *)
(***************************************************************************)
EXTENDS Integers, Sequences, FiniteSets, TLC

(***************************************************************************)
(* Bounds of the model.                                                    *)
(***************************************************************************)
MaxClock == 1          \* minutes the wall clock may advance
MaxRuns == 2           \* batch runs started in one behaviour
MaxElapsed == 7        \* seconds one run may spend waiting for publishers
SelPosts == 6          \* posts in the store of the selector specification

(***************************************************************************)
(* Program constants.                                                      *)
(***************************************************************************)
LookbackMinutes == 5       \* 5 * 60 * 1000 ms
BatchLimit == 5            \* .limit(5)
MAX_EXECUTION_TIME == 8    \* 8000 ms
BudgetMargin == 2          \* MAX_EXECUTION_TIME - 2000
TwitterTimeout == 5        \* setTimeout(..., 5000)

Platforms == {"twitter", "reddit", "linkedin"}    \* Post.platforms enum
Runs == {1, 2}             \* slots for batch runs (cron tick, cron endpoint)
Users == {"u1"}
NoUser == "null"           \* populate('userId') of a dangling reference
PostIds == {"p1", "p2"}

EmptyResults == [k \in {} |-> 0]
NotPublished == <<>>       \* publishedAt undefined
SomeDate == <<"date">>     \* publishedAt = new Date(): set, its value is not modelled

(***************************************************************************)
(* Inputs: the stored platforms lists, scheduled times and accounts the    *)
(* behaviours start from.  schedulePost stores req.body.platforms as       *)
(* given (any non-empty list over the enum, repetitions included).         *)
(***************************************************************************)
PlatformLists ==
    { <<"twitter">>, <<"reddit", "twitter">>, <<"twitter", "twitter">> }

StartClock == LookbackMinutes + 1

ScheduledTimes ==
    { StartClock - LookbackMinutes,    \* exactly now - 5 min at the start
      StartClock,                      \* exactly now at the start
      StartClock + 1 }                 \* one minute in the future

ValidAccount == [exists |-> TRUE, connected |-> TRUE, accessToken |-> "tok"]
DisconnectedAccount == [exists |-> TRUE, connected |-> FALSE, accessToken |-> ""]

AccountConfigs ==
    { [pl \in Platforms |-> ValidAccount],
      [pl \in Platforms |-> IF pl = "reddit" THEN DisconnectedAccount ELSE ValidAccount] }

VARIABLES
    clock,          \* wall clock, minutes
    posts,          \* Post collection: id -> document
    accounts,       \* User.connectedAccounts: user -> platform -> account
    postsCount,     \* User.postsCount
    abandoned,      \* postToTwitter calls still running after their timer fired: post id -> count
    runsStarted,    \* number of runs started so far
    populated,      \* per run: the user documents read by populate('userId')
    flows,          \* OAuth: the connect flows started, and the last account write
    pc,             \* per run: position in processScheduledPosts
    batch,          \* per run: duePosts (sequence of post ids)
    idx,            \* per run: index of the current post in duePosts
    elapsed,        \* per run: Date.now() - startTime, seconds
    timer,          \* per run: seconds since the current post's Twitter timer was armed
    attempts,       \* per run: platformPromises of the current post
    mem,            \* per run: the in-memory document of the current post
    processedCount, \* per run: processedCount
    writes,         \* history: successful saves per post
    counted,        \* history: postsCount increments made for each post
    selStore,       \* selector specification: the Post collection
    selNow,         \* selector specification: now
    selDone,        \* selector specification: the query has run
    selResult,      \* selector specification: duePosts, the result of the query
    handler,        \* cron endpoint: position of the request handler
    cronTimer,      \* cron endpoint: the 9 s response timer
    responses,      \* cron endpoint: status codes sent on res, in order
    pub,            \* one publisher call or one signature: its inputs and outcome
    otherPosts,     \* posts API: per user, the stored posts besides those of `posts`
    requests,       \* posts API: the schedule and delete requests being served
    requestsStarted \* posts API: number of requests received so far

runVars == <<pc, batch, idx, elapsed, timer, attempts, mem, processedCount>>
storeVars == <<posts, accounts, postsCount>>
histVars == <<writes, counted>>
selVars == <<selStore, selNow, selDone, selResult>>
cronVars == <<handler, cronTimer, responses>>
pubVars == <<pub>>
apiVars == <<otherPosts, requests, requestsStarted>>
sideVars == <<selVars, cronVars, pubVars, apiVars>>
vars ==
    <<clock, storeVars, abandoned, runsStarted, populated, flows, runVars, histVars, sideVars>>

(***************************************************************************)
(* Due-post selection: Post.find({status:'scheduled', scheduledTime:       *)
(* {$lte: now, $gte: fiveMinutesAgo}}).limit(5).  The query has no sort,   *)
(* so which matching documents the limit keeps, and their order, is the    *)
(* store's choice.                                                         *)
(***************************************************************************)
Range(seq) == {seq[i] : i \in DOMAIN seq}

Active(r) ==
    pc[r] \in {"connecting", "querying", "loop", "awaiting", "counter", "recover"}
Current(r) == batch[r][idx[r]]

\* A run is between the dispatch of p's attempts and the end of p's iteration.
InProgress(p) ==
    \E r \in Runs : pc[r] \in {"awaiting", "counter", "recover"} /\ Current(r) = p

\* Mutant: the query ignores the status filter.
IsDueAnyStatus(doc, now) ==
    /\ doc.scheduledTime <= now
    /\ doc.scheduledTime >= now - LookbackMinutes

\* Mutant: the query also returns 'failed' posts (an automatic retry).
IsDueOrFailed(doc, now) ==
    /\ doc.status \in {"scheduled", "failed"}
    /\ doc.scheduledTime <= now
    /\ doc.scheduledTime >= now - LookbackMinutes

IsDue(doc, now) ==
    /\ doc.status = "scheduled"
    /\ doc.scheduledTime <= now
    /\ doc.scheduledTime >= now - LookbackMinutes

\* Mutant: the query skips a post that a run is working on (a per-post lock).
DuePostsUnlessInProgress(store, now) ==
    {p \in DOMAIN store : IsDue(store[p], now) /\ ~InProgress(p)}

DuePosts(store, now) == {p \in DOMAIN store : IsDue(store[p], now)}

Min(a, b) == IF a <= b THEN a ELSE b

RECURSIVE Arrangements(_, _)
Arrangements(S, n) ==
    IF n = 0 THEN {<<>>}
    ELSE UNION {{<<x>> \o s : s \in Arrangements(S \ {x}, n - 1)} : x \in S}

FindDue(store, now) ==
    LET matched == DuePosts(store, now)
    IN  Arrangements(matched, Min(BatchLimit, Cardinality(matched)))

(***************************************************************************)
(* One platform attempt (the async callback of post.platforms.map), up to  *)
(* its first await.  With a null owner `user._id` throws and the promise   *)
(* rejects; a failed precondition returns a failure result; otherwise the  *)
(* publisher is called and the attempt is pending.                         *)
(***************************************************************************)
Attempt(pl, st, called, ok, err) ==
    [platform |-> pl, state |-> st, called |-> called, success |-> ok, error |-> err]

\* Mutant: the access token is checked before the connected flag.
DispatchAttemptTokenFirst(owner, accts, pl) ==
    IF owner = NoUser
    THEN Attempt(pl, "rejected", FALSE, FALSE, "Cannot read properties of null")
    ELSE LET account == accts[owner][pl]
         IN  IF ~account.exists
             THEN Attempt(pl, "fulfilled", FALSE, FALSE, pl \o " account not found")
             ELSE IF account.accessToken = ""
             THEN Attempt(pl, "fulfilled", FALSE, FALSE, pl \o " account missing access token")
             ELSE IF ~account.connected
             THEN Attempt(pl, "fulfilled", FALSE, FALSE, pl \o " account not connected")
             ELSE Attempt(pl, "pending", TRUE, FALSE, "")

DispatchAttempt(owner, accts, pl) ==
    IF owner = NoUser
    THEN Attempt(pl, "rejected", FALSE, FALSE, "Cannot read properties of null")
    ELSE LET account == accts[owner][pl]
         IN  IF ~account.exists
             THEN Attempt(pl, "fulfilled", FALSE, FALSE, pl \o " account not found")
             ELSE IF ~account.connected
             THEN Attempt(pl, "fulfilled", FALSE, FALSE, pl \o " account not connected")
             ELSE IF account.accessToken = ""
             THEN Attempt(pl, "fulfilled", FALSE, FALSE, pl \o " account missing access token")
             ELSE IF pl \notin Platforms
             THEN Attempt(pl, "fulfilled", FALSE, FALSE, "unsupported platform")
             ELSE Attempt(pl, "pending", TRUE, FALSE, "")

\* Mutant: only the first platform of the list is attempted before the join.
DispatchFirstOnly(owner, accts, platforms) ==
    [k \in DOMAIN platforms \cap {1} |-> DispatchAttempt(owner, accts, platforms[k])]

DispatchAll(owner, accts, platforms) ==
    [k \in DOMAIN platforms |-> DispatchAttempt(owner, accts, platforms[k])]

Pending(atts) == {k \in DOMAIN atts : atts[k].state = "pending"}

(***************************************************************************)
(* Aggregation after Promise.allSettled: results, hasSuccess and the       *)
(* platformResults object, written entry by entry in list order.           *)
(***************************************************************************)
ResultOf(a) ==
    IF a.state = "fulfilled"
    THEN [platform |-> a.platform, success |-> a.success, error |-> a.error]
    ELSE [platform |-> "unknown", success |-> FALSE, error |-> a.error]

Results(atts) == [k \in DOMAIN atts |-> ResultOf(atts[k])]

\* Mutant: a join that needs every attempt to succeed (Promise.all).
HasSuccessAll(atts) ==
    \A k \in DOMAIN atts : atts[k].state = "fulfilled" /\ atts[k].success

HasSuccess(atts) ==
    \E k \in DOMAIN atts : atts[k].state = "fulfilled" /\ atts[k].success

RECURSIVE PlatformResults(_)
PlatformResults(results) ==
    IF results = <<>> THEN EmptyResults
    ELSE LET n == Len(results)
             prev == PlatformResults(SubSeq(results, 1, n - 1))
             last == results[n]
         IN  [key \in DOMAIN prev \cup {last.platform} |->
                 IF key = last.platform
                 THEN [success |-> last.success, error |-> last.error]
                 ELSE prev[key]]

(***************************************************************************)
(* post.save(): the fields assigned since the last successful save are     *)
(* written.  platformResults is declared in the schema with the three      *)
(* platform keys only; whether an 'unknown' entry assigned to it reaches   *)
(* the store is the schema layer's choice (keepUnknown).                   *)
(***************************************************************************)
StoredResults(pr, keepUnknown) ==
    IF keepUnknown THEN pr ELSE [key \in DOMAIN pr \ {"unknown"} |-> pr[key]]

\* Mutant: the save replaces the stored document by the in-memory fields;
\* what the run did not assign falls back to the schema's defaults.
PersistReplace(doc, m, keepUnknown) ==
    [doc EXCEPT
        !.content = "", !.platforms = <<>>, !.media = "none",
        !.status = m.status, !.publishedAt = m.publishedAt,
        !.platformResults = StoredResults(m.platformResults, keepUnknown),
        !.errorMessage = m.errorMessage]

Persist(doc, m, keepUnknown) ==
    [doc EXCEPT
        !.status = IF "status" \in m.dirty THEN m.status ELSE @,
        !.publishedAt = IF "publishedAt" \in m.dirty THEN m.publishedAt ELSE @,
        !.platformResults = IF "platformResults" \in m.dirty
                            THEN StoredResults(m.platformResults, keepUnknown) ELSE @,
        !.errorMessage = IF "errorMessage" \in m.dirty THEN m.errorMessage ELSE @]

NoMem == [status |-> "scheduled", publishedAt |-> NotPublished,
          platformResults |-> EmptyResults, errorMessage |-> "", dirty |-> {}]

NewPost(owner, platforms, t) ==
    [userId |-> owner, content |-> "content", platforms |-> platforms,
     scheduledTime |-> t, media |-> "media",
     status |-> "scheduled", publishedAt |-> NotPublished,
     platformResults |-> EmptyResults, errorMessage |-> ""]

FirstPosts ==
    {NewPost(o, pls, StartClock) : o \in Users \cup {NoUser}, pls \in PlatformLists}

SecondPosts == {NewPost("u1", <<"reddit">>, t) : t \in ScheduledTimes}


(***************************************************************************)
(* Initial state: the posts were created by schedulePost (status           *)
(* 'scheduled', nothing published, postsCount incremented once per post).  *)
(* Post.userId is an unchecked reference: the store may hold a post whose  *)
(* owner document is gone, for which populate('userId') yields null.       *)
(***************************************************************************)
InitRuns ==
    /\ runsStarted = 0
    /\ populated = [r \in Runs |-> accounts]
    /\ pc = [r \in Runs |-> "idle"]
    /\ batch = [r \in Runs |-> <<>>]
    /\ idx = [r \in Runs |-> 0]
    /\ elapsed = [r \in Runs |-> 0]
    /\ timer = [r \in Runs |-> 0]
    /\ attempts = [r \in Runs |-> <<>>]
    /\ mem = [r \in Runs |-> NoMem]
    /\ processedCount = [r \in Runs |-> 0]

NoWrite == [kind |-> "none", by |-> NoUser, user |-> NoUser]

NoFlows == [started |-> {}, last |-> NoWrite]

InitWorld ==
    /\ clock = StartClock
    /\ flows = NoFlows
    /\ abandoned = [p \in PostIds |-> 0]
    /\ writes = [p \in PostIds |-> 0]
    /\ counted = [p \in PostIds |-> 0]

InitSelIdle ==
    /\ selStore = <<>>
    /\ selNow = 0
    /\ selDone = FALSE
    /\ selResult = <<>>

InitCronIdle ==
    /\ handler = "idle"
    /\ cronTimer = "off"
    /\ responses = <<>>

InitPubIdle == pub = <<>>

InitApiIdle ==
    /\ otherPosts = [u \in {} |-> 0]
    /\ requests = <<>>
    /\ requestsStarted = 0

InitSide ==
    /\ InitSelIdle
    /\ InitCronIdle
    /\ InitPubIdle
    /\ InitApiIdle

Init ==
    /\ posts \in {[p \in PostIds |-> IF p = "p1" THEN first ELSE second] :
                     first \in FirstPosts, second \in SecondPosts}
    /\ accounts \in [Users -> AccountConfigs]
    /\ postsCount = [u \in Users |-> Cardinality({p \in PostIds : posts[p].userId = u})]
    /\ InitWorld
    /\ InitRuns
    /\ InitSide

(***************************************************************************)
(* processScheduledPosts, lines 1066-1095: connect (3 s race), query.      *)
(***************************************************************************)
StartRun(r) ==
    /\ runsStarted < MaxRuns
    /\ ~Active(r)
    /\ runsStarted' = runsStarted + 1
    /\ \E dbOk \in BOOLEAN :
          IF ~dbOk
          THEN /\ pc' = [pc EXCEPT ![r] = "thrown"]
               /\ batch' = [batch EXCEPT ![r] = <<>>]
               /\ idx' = [idx EXCEPT ![r] = 0]
               /\ UNCHANGED populated
          ELSE \E found \in FindDue(posts, clock) :
               /\ batch' = [batch EXCEPT ![r] = found]
               /\ populated' = [populated EXCEPT ![r] = accounts]
               /\ pc' = [pc EXCEPT ![r] = IF found = <<>> THEN "done" ELSE "loop"]
               /\ idx' = [idx EXCEPT ![r] = IF found = <<>> THEN 0 ELSE 1]
    /\ elapsed' = [elapsed EXCEPT ![r] = 0]
    /\ timer' = [timer EXCEPT ![r] = 0]
    /\ attempts' = [attempts EXCEPT ![r] = <<>>]
    /\ mem' = [mem EXCEPT ![r] = NoMem]
    /\ processedCount' = [processedCount EXCEPT ![r] = 0]
    /\ UNCHANGED <<clock, storeVars, abandoned, flows, histVars, sideVars>>

(***************************************************************************)
(* Top of the for loop, lines 1100-1188: the budget check, then the        *)
(* dispatch of every platform attempt of the post.  The owner is the       *)
(* populated post.userId: the user document as the query read it.         *)
(***************************************************************************)
\* Mutant: the check compares with the whole of MAX_EXECUTION_TIME.
OverBudgetWholeBudget(r) == elapsed[r] > MAX_EXECUTION_TIME

\* Mutant: the check already fails when the elapsed time equals the limit.
OverBudgetAtLimit(r) == elapsed[r] >= MAX_EXECUTION_TIME - BudgetMargin

OverBudget(r) == elapsed[r] > MAX_EXECUTION_TIME - BudgetMargin

NextPost(r) ==
    /\ pc[r] = "loop"
    /\ IF idx[r] > Len(batch[r]) \/ OverBudget(r)
       THEN /\ pc' = [pc EXCEPT ![r] = "done"]
            /\ attempts' = [attempts EXCEPT ![r] = <<>>]
            /\ timer' = [timer EXCEPT ![r] = 0]
            /\ mem' = [mem EXCEPT ![r] = NoMem]
       ELSE LET doc == posts[Current(r)]
            IN  /\ attempts' = [attempts EXCEPT ![r] =
                                   DispatchAll(doc.userId, populated[r], doc.platforms)]
                /\ timer' = [timer EXCEPT ![r] = 0]
                /\ mem' = [mem EXCEPT ![r] = NoMem]
                /\ pc' = [pc EXCEPT ![r] = "awaiting"]
    /\ UNCHANGED <<clock, storeVars, abandoned, runsStarted, populated, flows, batch, idx,
                   elapsed, processedCount, histVars, sideVars>>

(***************************************************************************)
(* Time passes while publisher calls are awaited (the time the store       *)
(* operations take is not counted).  The Twitter timer                     *)
(* fires at 5 s: time does not pass beyond it with the call unsettled.     *)
(* The timer reads 0 when no Twitter call of the post is being raced.      *)
(***************************************************************************)
TimerArmed(atts) == \E k \in Pending(atts) : atts[k].platform = "twitter"

\* Mutant: the timer fires one second late.
TimerDueLate(r) == TimerArmed(attempts[r]) /\ timer[r] >= TwitterTimeout + 1

TimerDue(r) == TimerArmed(attempts[r]) /\ timer[r] >= TwitterTimeout

TimerAfter(atts, t) == IF TimerArmed(atts) THEN t ELSE 0

Elapse(r) ==
    /\ pc[r] = "awaiting"
    /\ Pending(attempts[r]) # {}
    /\ elapsed[r] < MaxElapsed
    /\ ~TimerDue(r)
    /\ elapsed' = [elapsed EXCEPT ![r] = @ + 1]
    /\ timer' = [timer EXCEPT ![r] = TimerAfter(attempts[r], @ + 1)]
    /\ UNCHANGED <<clock, storeVars, abandoned, runsStarted, populated, flows, pc, batch, idx,
                   attempts, mem, processedCount, histVars, sideVars>>

(***************************************************************************)
(* Lines 1154-1187: a publisher call returns a result or throws.           *)
(***************************************************************************)
PublisherOutcomes == {"ok", "error", "throw"}

Settle(a, out) ==
    [a EXCEPT !.state = "fulfilled",
              !.success = (out = "ok"),
              !.error = IF out = "ok" THEN "" ELSE "publisher error"]

PublisherReturns(r, k) ==
    /\ pc[r] = "awaiting"
    /\ k \in Pending(attempts[r])
    /\ \E out \in PublisherOutcomes :
          attempts' = [attempts EXCEPT ![r][k] = Settle(@, out)]
    /\ timer' = [timer EXCEPT ![r] = TimerAfter(attempts'[r], @)]
    /\ UNCHANGED <<clock, storeVars, abandoned, runsStarted, populated, flows, pc, batch, idx, elapsed,
                   mem, processedCount, histVars, sideVars>>

(***************************************************************************)
(* Lines 1158-1161 and 1176-1182: the 5 s timer wins the race.  The        *)
(* attempt settles as a failure; the postToTwitter call goes on running.   *)
(***************************************************************************)
TwitterTimesOut(r, k) ==
    /\ pc[r] = "awaiting"
    /\ k \in Pending(attempts[r])
    /\ attempts[r][k].platform = "twitter"
    /\ timer[r] >= TwitterTimeout
    /\ attempts' = [attempts EXCEPT ![r][k] =
                       [@ EXCEPT !.state = "fulfilled", !.success = FALSE,
                                 !.error = "Twitter API timeout"]]
    /\ timer' = [timer EXCEPT ![r] = TimerAfter(attempts'[r], @)]
    /\ abandoned' = [abandoned EXCEPT ![Current(r)] = @ + 1]
    /\ UNCHANGED <<clock, storeVars, runsStarted, populated, flows, pc, batch, idx, elapsed,
                   mem, processedCount, histVars, sideVars>>

AbandonedCallReturns(p) ==
    /\ abandoned[p] > 0
    /\ abandoned' = [abandoned EXCEPT ![p] = @ - 1]
    /\ UNCHANGED <<clock, storeVars, runsStarted, populated, flows, runVars, histVars, sideVars>>

(***************************************************************************)
(* Lines 1191-1220: join, aggregate, assign, post.save().                  *)
(***************************************************************************)
Aggregate(atts, now) ==
    LET hasSuccess == HasSuccess(atts)
    IN  [status |-> IF hasSuccess THEN "published" ELSE "failed",
         publishedAt |-> IF hasSuccess THEN now ELSE NotPublished,
         platformResults |-> PlatformResults(Results(atts)),
         errorMessage |-> "",
         dirty |-> {"status", "platformResults"}
                     \cup (IF hasSuccess THEN {"publishedAt"} ELSE {})]

\* Mutant: the catch block records the message but leaves the status.
CatchErrorKeepStatus(m, message) ==
    [m EXCEPT !.errorMessage = message, !.dirty = @ \cup {"errorMessage"}]

CatchError(m, message) ==
    [m EXCEPT !.status = "failed", !.errorMessage = message,
              !.dirty = @ \cup {"status", "errorMessage"}]

EndIteration(r) ==
    /\ idx' = [idx EXCEPT ![r] = @ + 1]
    /\ pc' = [pc EXCEPT ![r] = "loop"]

AggregateAndSave(r) ==
    /\ pc[r] = "awaiting"
    /\ Pending(attempts[r]) = {}
    /\ LET p == Current(r)
           m == Aggregate(attempts[r], SomeDate)
       IN  \E saveOk \in BOOLEAN, keepUnknown \in BOOLEAN :
             IF saveOk
             THEN /\ posts' = [posts EXCEPT ![p] = Persist(@, m, keepUnknown)]
                  /\ writes' = [writes EXCEPT ![p] = @ + 1]
                  /\ mem' = [mem EXCEPT ![r] = [m EXCEPT !.dirty = {}]]
                  /\ IF m.status = "published"
                     THEN pc' = [pc EXCEPT ![r] = "counter"] /\ idx' = idx
                     ELSE EndIteration(r)
             ELSE /\ mem' = [mem EXCEPT ![r] = CatchError(m, "save failed")]
                  /\ pc' = [pc EXCEPT ![r] = "recover"]
                  /\ UNCHANGED <<posts, writes, idx>>
    /\ UNCHANGED <<clock, accounts, postsCount, abandoned, runsStarted, populated, flows, batch,
                   elapsed, timer, attempts, processedCount, counted, sideVars>>

(***************************************************************************)
(* Lines 1222-1232: User.findByIdAndUpdate($inc postsCount), then          *)
(* processedCount++.                                                       *)
(***************************************************************************)
IncrementPostsCount(r) ==
    /\ pc[r] = "counter"
    /\ LET p == Current(r)
           owner == posts[p].userId
       IN  \E updateOk \in BOOLEAN :
             IF updateOk
             THEN /\ postsCount' = [postsCount EXCEPT ![owner] = @ + 1]
                  /\ counted' = [counted EXCEPT ![p] = @ + 1]
                  /\ processedCount' = [processedCount EXCEPT ![r] = @ + 1]
                  /\ EndIteration(r)
                  /\ mem' = mem
             ELSE /\ mem' = [mem EXCEPT ![r] = CatchError(@, "counter update failed")]
                  /\ pc' = [pc EXCEPT ![r] = "recover"]
                  /\ UNCHANGED <<postsCount, counted, processedCount, idx>>
    /\ UNCHANGED <<clock, posts, accounts, abandoned, runsStarted, populated, flows, batch,
                   elapsed, timer, attempts, writes, sideVars>>

(***************************************************************************)
(* Lines 1236-1247: the catch block's recovery save; its own failure is    *)
(* swallowed.                                                              *)
(***************************************************************************)
RecoverySave(r) ==
    /\ pc[r] = "recover"
    /\ LET p == Current(r)
       IN  \E saveOk \in BOOLEAN, keepUnknown \in BOOLEAN :
             IF saveOk
             THEN /\ posts' = [posts EXCEPT ![p] = Persist(@, mem[r], keepUnknown)]
                  /\ writes' = [writes EXCEPT ![p] = @ + 1]
                  /\ mem' = [mem EXCEPT ![r].dirty = {}]
             ELSE UNCHANGED <<posts, writes, mem>>
    /\ EndIteration(r)
    /\ UNCHANGED <<clock, accounts, postsCount, abandoned, runsStarted, populated, flows, batch,
                   elapsed, timer, attempts, processedCount, counted, sideVars>>

ClockTick(betweenRuns) ==
    /\ clock < StartClock + MaxClock
    /\ betweenRuns => \A r \in Runs : ~Active(r)
    /\ clock' = clock + 1
    /\ UNCHANGED <<storeVars, abandoned, runsStarted, populated, flows, runVars, histVars, sideVars>>

RunStep(r) ==
    \/ StartRun(r)
    \/ NextPost(r)
    \/ Elapse(r)
    \/ \E k \in DOMAIN attempts[r] : PublisherReturns(r, k)
    \/ \E k \in DOMAIN attempts[r] : TwitterTimesOut(r, k)
    \/ AggregateAndSave(r)
    \/ IncrementPostsCount(r)
    \/ RecoverySave(r)

(***************************************************************************)
(* Spec: batch runs one after another (a single run slot).                 *)
(* SpecOverlap: two run slots, so that runs may overlap in time.           *)
(***************************************************************************)
Next ==
    \/ RunStep(1)
    \/ \E p \in PostIds : AbandonedCallReturns(p)
    \/ ClockTick(TRUE)

Spec == Init /\ [][Next]_vars

(***************************************************************************)
(* SpecOverlap starts from a post due now and a post not due within the    *)
(* model's clock range, both of a user with every account connected.       *)
(***************************************************************************)
InitOverlap ==
    /\ \E pls \in {<<"twitter">>, <<"reddit">>} :
          posts = [p \in PostIds |->
                     IF p = "p1" THEN NewPost("u1", pls, StartClock)
                     ELSE NewPost("u1", <<"reddit">>, StartClock + MaxClock + 1)]
    /\ accounts = [u \in Users |-> [pl \in Platforms |-> ValidAccount]]
    /\ postsCount = [u \in Users |-> Cardinality(PostIds)]
    /\ InitWorld
    /\ InitRuns
    /\ InitSide

NextOverlap ==
    \/ \E r \in Runs : RunStep(r)
    \/ \E p \in PostIds : AbandonedCallReturns(p)
    \/ ClockTick(FALSE)

SpecOverlap == InitOverlap /\ [][NextOverlap]_vars

(***************************************************************************)
(* SpecSel: the due-post query alone, on stores of SelPosts documents      *)
(* around the window's edges.  FindDue does not depend on the order of     *)
(* the documents, so the stores are enumerated up to that order.           *)
(***************************************************************************)
SelDoc(st, t) == [status |-> st, scheduledTime |-> t]

SelKinds ==
    << SelDoc("scheduled", StartClock - LookbackMinutes - 1),
       SelDoc("scheduled", StartClock - LookbackMinutes),
       SelDoc("scheduled", StartClock),
       SelDoc("scheduled", StartClock + 1),
       SelDoc("scheduled", StartClock + MaxClock + 1),
       SelDoc("published", StartClock),
       SelDoc("failed", StartClock) >>

InitSel ==
    /\ \E f \in [1 .. SelPosts -> DOMAIN SelKinds] :
          /\ \A i \in 1 .. SelPosts - 1 : f[i] <= f[i + 1]
          /\ selStore = [i \in 1 .. SelPosts |-> SelKinds[f[i]]]
    /\ selNow = StartClock
    /\ selDone = FALSE
    /\ selResult = <<>>
    /\ posts = [p \in PostIds |-> NewPost("u1", <<"twitter">>, StartClock)]
    /\ accounts = [u \in Users |-> [pl \in Platforms |-> ValidAccount]]
    /\ postsCount = [u \in Users |-> Cardinality(PostIds)]
    /\ InitWorld
    /\ InitRuns
    /\ InitCronIdle
    /\ InitPubIdle
    /\ InitApiIdle

SelAdvance ==
    /\ ~selDone
    /\ selNow < StartClock + MaxClock
    /\ selNow' = selNow + 1
    /\ UNCHANGED <<selStore, selDone, selResult>>
    /\ UNCHANGED <<clock, storeVars, abandoned, runsStarted, populated, flows, runVars, histVars, cronVars, pubVars, apiVars>>

SelFind ==
    /\ ~selDone
    /\ selResult' \in FindDue(selStore, selNow)
    /\ selDone' = TRUE
    /\ UNCHANGED <<selStore, selNow>>
    /\ UNCHANGED <<clock, storeVars, abandoned, runsStarted, populated, flows, runVars, histVars, cronVars, pubVars, apiVars>>

NextSel ==
    \/ SelAdvance
    \/ SelFind

SpecSel == InitSel /\ [][NextSel]_vars

(***************************************************************************)
(* SpecPre: the account preconditions of lines 1118-1149.  One due post    *)
(* requests the three platforms; the owner's account sub-documents range   *)
(* over the shapes the store may hand to the run: absent, never connected  *)
(* or disconnected (connected false, with or without a token left),        *)
(* connected without a token, and valid.                                   *)
(***************************************************************************)
AbsentAccount == [exists |-> FALSE, connected |-> FALSE, accessToken |-> ""]
StaleTokenAccount == [exists |-> TRUE, connected |-> FALSE, accessToken |-> "tok"]
TokenlessAccount == [exists |-> TRUE, connected |-> TRUE, accessToken |-> ""]

PreAccounts ==
    {ValidAccount, AbsentAccount, DisconnectedAccount, StaleTokenAccount,
     TokenlessAccount}

InitPre ==
    /\ posts = [p \in PostIds |->
                  IF p = "p1"
                  THEN NewPost("u1", <<"twitter", "reddit", "linkedin">>, StartClock)
                  ELSE NewPost("u1", <<"reddit">>, StartClock + MaxClock + 1)]
    /\ accounts \in [Users -> [Platforms -> PreAccounts]]
    /\ postsCount = [u \in Users |-> Cardinality(PostIds)]
    /\ InitWorld
    /\ InitRuns
    /\ InitSide

SpecPre == InitPre /\ [][Next]_vars

(***************************************************************************)
(* SpecCron: one request to the cron endpoint (module.exports, lines       *)
(* 1275-1321).  The handler arms a 9 s timer that answers 408 when nothing *)
(* has been sent, awaits processScheduledPosts, then clears the timer and  *)
(* answers 200, or, when the run threw, answers 500 (the catch does not    *)
(* clear the timer).  Here the connection and the query of lines           *)
(* 1070-1095 are awaited operations of their own and take time; the        *)
(* connection is raced against a 3 s timer.  elapsed[r] is also the        *)
(* handler's clock: both startTime are taken in the same turn.             *)
(***************************************************************************)
ConnectTimeout == 3        \* setTimeout(..., 3000)
ResponseTimeout == 9       \* setTimeout(..., 9000)
MaxCronElapsed == 10       \* seconds the clock of a request may reach

\* Mutant: the answer is sent whether or not one has been sent before.
SendAlways(sent, code) == Append(sent, code)

HeadersSent == responses # <<>>

Send(sent, code) == IF sent = <<>> THEN <<code>> ELSE sent

\* Mutant: the handler's catch answers nothing.
CatchResponseNone(sent) == sent

\* Lines 1307-1320: the handler's catch.
CatchResponse(sent) == Send(sent, 500)

InitCron ==
    /\ \E pls \in {<<"twitter">>, <<"reddit">>} : \E second \in SecondPosts :
          posts = [p \in PostIds |->
                     IF p = "p1" THEN NewPost("u1", pls, StartClock) ELSE second]
    /\ accounts = [u \in Users |-> [pl \in Platforms |-> ValidAccount]]
    /\ postsCount = [u \in Users |-> Cardinality(PostIds)]
    /\ InitWorld
    /\ InitRuns
    /\ InitSide

CronRequest(r) ==
    /\ handler = "idle"
    /\ runsStarted < MaxRuns
    /\ ~Active(r)
    /\ handler' = "awaiting"
    /\ cronTimer' = "armed"
    /\ runsStarted' = runsStarted + 1
    /\ pc' = [pc EXCEPT ![r] = "connecting"]
    /\ batch' = [batch EXCEPT ![r] = <<>>]
    /\ idx' = [idx EXCEPT ![r] = 0]
    /\ elapsed' = [elapsed EXCEPT ![r] = 0]
    /\ timer' = [timer EXCEPT ![r] = 0]
    /\ attempts' = [attempts EXCEPT ![r] = <<>>]
    /\ mem' = [mem EXCEPT ![r] = NoMem]
    /\ processedCount' = [processedCount EXCEPT ![r] = 0]
    /\ UNCHANGED <<clock, storeVars, abandoned, populated, flows, histVars, selVars,
                   pubVars, apiVars, responses>>

CronTimerDue(r) == cronTimer = "armed" /\ elapsed[r] >= ResponseTimeout

\* The run function and the handler's continuation run in one turn: no
\* timer fires between the end of the run and the handler's answer.
HandlerResuming(r) == handler = "awaiting" /\ pc[r] = "done"

ElapseCron(r) ==
    /\ \/ pc[r] \in {"connecting", "querying"}
       \/ pc[r] = "thrown" /\ cronTimer = "armed"
    /\ pc[r] = "connecting" => elapsed[r] < ConnectTimeout
    /\ elapsed[r] < MaxCronElapsed
    /\ ~CronTimerDue(r)
    /\ elapsed' = [elapsed EXCEPT ![r] = @ + 1]
    /\ UNCHANGED <<clock, storeVars, abandoned, runsStarted, populated, flows, pc, batch, idx, timer,
                   attempts, mem, processedCount, histVars, sideVars>>

\* The endpoint's clock also runs while a store operation of the loop is
\* awaited (post.save, findByIdAndUpdate) and while a publisher call is
\* awaited beyond the seconds Elapse counts.
ElapseAwaited(r) ==
    /\ handler = "awaiting"
    /\ pc[r] \in {"awaiting", "counter", "recover"}
    /\ (pc[r] = "awaiting" /\ Pending(attempts[r]) # {}) => elapsed[r] >= MaxElapsed
    /\ elapsed[r] < MaxCronElapsed
    /\ ~TimerDue(r)
    /\ ~CronTimerDue(r)
    /\ elapsed' = [elapsed EXCEPT ![r] = @ + 1]
    /\ timer' = [timer EXCEPT ![r] = TimerAfter(attempts[r], @ + 1)]
    /\ UNCHANGED <<clock, storeVars, abandoned, runsStarted, populated, flows, pc, batch, idx,
                   attempts, mem, processedCount, histVars, sideVars>>

\* Lines 1252-1255 rethrow; the handler's catch answers.
Throw(r) ==
    /\ pc' = [pc EXCEPT ![r] = "thrown"]
    /\ responses' = CatchResponse(responses)
    /\ handler' = "finished"
    /\ UNCHANGED <<batch, idx, cronTimer>>

ConnectReturns(r) ==
    /\ pc[r] = "connecting"
    /\ \E ok \in BOOLEAN :
          IF ok
          THEN /\ pc' = [pc EXCEPT ![r] = "querying"]
               /\ UNCHANGED <<batch, idx, cronVars>>
          ELSE Throw(r)
    /\ UNCHANGED <<clock, storeVars, abandoned, runsStarted, populated, flows, elapsed, timer,
                   attempts, mem, processedCount, histVars, selVars, pubVars, apiVars>>

ConnectTimesOut(r) ==
    /\ pc[r] = "connecting"
    /\ elapsed[r] >= ConnectTimeout
    /\ Throw(r)
    /\ UNCHANGED <<clock, storeVars, abandoned, runsStarted, populated, flows, elapsed, timer,
                   attempts, mem, processedCount, histVars, selVars, pubVars, apiVars>>

QueryReturns(r) ==
    /\ pc[r] = "querying"
    /\ \E ok \in BOOLEAN :
          IF ok
          THEN /\ \E found \in FindDue(posts, clock) :
                     /\ batch' = [batch EXCEPT ![r] = found]
                     /\ pc' = [pc EXCEPT ![r] = IF found = <<>> THEN "done" ELSE "loop"]
                     /\ idx' = [idx EXCEPT ![r] = IF found = <<>> THEN 0 ELSE 1]
               /\ populated' = [populated EXCEPT ![r] = accounts]
               /\ UNCHANGED cronVars
          ELSE Throw(r) /\ UNCHANGED populated
    /\ UNCHANGED <<clock, storeVars, abandoned, runsStarted, flows, elapsed, timer,
                   attempts, mem, processedCount, histVars, selVars, pubVars, apiVars>>

\* Lines 1282-1290: the 9 s timer.
CronTimerFires(r) ==
    /\ CronTimerDue(r)
    /\ ~HandlerResuming(r)
    /\ cronTimer' = "fired"
    /\ responses' = Send(responses, 408)
    /\ UNCHANGED <<clock, storeVars, abandoned, runsStarted, populated, flows, runVars, histVars,
                   selVars, pubVars, apiVars, handler>>

\* Lines 1292-1305: the run returned.
HandlerReturns(r) ==
    /\ HandlerResuming(r)
    /\ handler' = "finished"
    /\ cronTimer' = IF cronTimer = "armed" THEN "cleared" ELSE cronTimer
    /\ responses' = Send(responses, 200)
    /\ UNCHANGED <<clock, storeVars, abandoned, runsStarted, populated, flows, runVars, histVars,
                   selVars, pubVars, apiVars>>

NextCron ==
    \/ CronRequest(1)
    \/ ElapseCron(1)
    \/ ElapseAwaited(1)
    \/ ConnectReturns(1)
    \/ ConnectTimesOut(1)
    \/ QueryReturns(1)
    \/ CronTimerFires(1)
    \/ HandlerReturns(1)
    \/ NextPost(1)
    \/ Elapse(1)
    \/ \E k \in DOMAIN attempts[1] : PublisherReturns(1, k)
    \/ \E k \in DOMAIN attempts[1] : TwitterTimesOut(1, k)
    \/ AggregateAndSave(1)
    \/ IncrementPostsCount(1)
    \/ RecoverySave(1)
    \/ \E p \in PostIds : AbandonedCallReturns(p)

SpecCron == InitCron /\ [][NextCron]_vars

(***************************************************************************)
(* SpecCronLive: the same request under the scheduling the runtime gives.  *)
(* Time passes, a due timer's callback runs, and a continuation whose      *)
(* awaited promise has settled runs (the top of the loop, the handler's    *)
(* answer).  Nothing is assumed of the remote calls: the connection, the   *)
(* query, a publisher or a store operation may never return.               *)
(***************************************************************************)
TimePasses(r) == ElapseCron(r) \/ Elapse(r) \/ ElapseAwaited(r)

TimersRun(r) ==
    \/ CronTimerFires(r)
    \/ ConnectTimesOut(r)
    \/ \E k \in DOMAIN attempts[r] : TwitterTimesOut(r, k)

ContinuationsRun(r) == NextPost(r) \/ HandlerReturns(r)

CronFairness ==
    /\ WF_vars(TimePasses(1))
    /\ WF_vars(TimersRun(1))
    /\ WF_vars(ContinuationsRun(1))

SpecCronLive == InitCron /\ [][NextCron]_vars /\ CronFairness

(***************************************************************************)
(* The publishers: postToTwitter, postToReddit, postToLinkedin.  Each is a *)
(* function of its arguments and of what the remote services answer.  A   *)
(* call is described by the requests it makes, in order, each with its     *)
(* outcome (calls), the media references its final request carries         *)
(* (payload) and what it returns.  The function body either returns a      *)
(* value or throws; the function's outer try/catch turns a throw into a    *)
(* failure result.                                                         *)
(*                                                                         *)
(* media as schedulePost stores it: {hasMedia: false}, one object with     *)
(* hasMedia true, or a non-empty array of items.  An item is a jpg or a    *)
(* gif ('.gif' in its URL); uploaded item i gets media id / asset id i.    *)
(***************************************************************************)
MaxMedia == 2              \* items in a media array

ItemKinds == {"jpg", "gif"}

NoMedia == [isArray |-> FALSE, hasMedia |-> FALSE, items |-> <<>>]
MediaObject(item) == [isArray |-> FALSE, hasMedia |-> TRUE, items |-> <<item>>]
MediaArray(items) == [isArray |-> TRUE, hasMedia |-> FALSE, items |-> items]

MediaShapes ==
    {NoMedia}
        \cup {MediaObject(item) : item \in ItemKinds}
        \cup {MediaArray(items) :
                 items \in UNION {[1 .. n -> ItemKinds] : n \in 1 .. MaxMedia}}

\* media && (media.hasMedia || (Array.isArray(media) && media.length > 0))
MediaPresent(media) == media.hasMedia \/ (media.isArray /\ Len(media.items) > 0)

Call(req, out) == [req |-> req, out |-> out]

\* The requests `names` made in order, all answered well.
AllOk(names) == [i \in DOMAIN names |-> Call(names[i], "ok")]

\* The requests `names` made in order up to the one that fails.
TraceUntil(names, bad) ==
    LET k == CHOOSE i \in DOMAIN names : names[i] = bad
    IN  [i \in 1 .. k |-> Call(names[i], IF i = k THEN "fail" ELSE "ok")]

PubResult(ok, id, err) == [success |-> ok, postId |-> id, error |-> err]
NoResult == PubResult(FALSE, "", "")

Returned(calls, payload, value) ==
    [threw |-> FALSE, message |-> "", calls |-> calls, payload |-> payload,
     value |-> value]

Thrown(calls, message) ==
    [threw |-> TRUE, message |-> message, calls |-> calls, payload |-> <<>>,
     value |-> NoResult]

\* Mutant: no outer try/catch, the body's exception leaves the function.
NoCatch(body) ==
    [threw |-> body.threw, calls |-> body.calls, payload |-> body.payload,
     result |-> body.value]

\* try { body } catch (error) { return {success: false, error: error.message} }
CatchToResult(body) ==
    [threw |-> FALSE, calls |-> body.calls, payload |-> body.payload,
     result |-> IF body.threw THEN PubResult(FALSE, "", body.message) ELSE body.value]

(***************************************************************************)
(* What the publish request (tweet, submit, ugcPosts) is answered: fetch   *)
(* rejects, a non-2xx status, a 2xx body that is not JSON, or a 2xx JSON   *)
(* body with or without errors, a post id, a submission page.              *)
(***************************************************************************)
Response(status, errors, id, page) ==
    [status |-> status, errors |-> errors, id |-> id, page |-> page]

FailedResponses ==
    {Response(st, <<>>, FALSE, FALSE) : st \in {"network", "non2xx", "badjson"}}

PlainResponses ==
    FailedResponses \cup {Response("ok", <<>>, id, FALSE) : id \in BOOLEAN}

\* How a response shows in the call trace.
Outcome(resp) ==
    IF resp.status # "ok" THEN resp.status
    ELSE IF resp.errors # <<>> THEN "errors"
    ELSE IF resp.id THEN "ok"
    ELSE IF resp.page THEN "page"
    ELSE "noid"

(***************************************************************************)
(* uploadMediaToTwitterV1 (lines 54-90) with uploadImageSimple and         *)
(* uploadGifChunked.  `out` names the step that fails, or is "ok", "noid"  *)
(* (the upload answer has no media_id_string) or "processing" (FINALIZE    *)
(* reports processing_info).                                               *)
(***************************************************************************)
\* waitForProcessing (lines 271-325): STATUS polling of an uploaded GIF.  No
\* function of the program calls it.
WaitForProcessing == <<Call("STATUS", "ok")>>

TwitterUploadSteps(item) ==
    IF item = "gif" THEN <<"fetch", "credentials", "INIT", "APPEND", "FINALIZE">>
    ELSE <<"fetch", "credentials", "upload">>

TwitterUploadOutcomes(item) ==
    Range(TwitterUploadSteps(item))
        \cup (IF item = "gif" THEN {"ok", "processing"} ELSE {"ok", "noid"})

\* Mutant: a FINALIZE that reports processing_info is followed by polling.
UploadMediaToTwitterV1Polling(item, i, out) ==
    LET names == TwitterUploadSteps(item)
    IN  IF out \in Range(names)
        THEN [threw |-> TRUE, calls |-> TraceUntil(names, out), id |-> 0]
        ELSE [threw |-> FALSE,
              calls |-> AllOk(names)
                           \o (IF out = "processing" THEN WaitForProcessing ELSE <<>>),
              id |-> IF out = "noid" THEN 0 ELSE i]

UploadMediaToTwitterV1(item, i, out) ==
    LET names == TwitterUploadSteps(item)
    IN  IF out \in Range(names)
        THEN [threw |-> TRUE, calls |-> TraceUntil(names, out), id |-> 0]
        ELSE [threw |-> FALSE, calls |-> AllOk(names),
              id |-> IF out = "noid" THEN 0 ELSE i]

\* Mutant: the try/catch sits inside the loop, so the ids uploaded before and
\* after a failing item are kept.
RECURSIVE TwitterMediaLoopCatchPerItem(_, _, _)
TwitterMediaLoopCatchPerItem(items, outs, i) ==
    IF i > Len(items) THEN [threw |-> FALSE, calls |-> <<>>, ids |-> <<>>]
    ELSE LET up == UploadMediaToTwitterV1(items[i], i, outs[i])
             rest == TwitterMediaLoopCatchPerItem(items, outs, i + 1)
         IN  [threw |-> FALSE,
              calls |-> up.calls \o rest.calls,
              ids |-> (IF ~up.threw /\ up.id # 0 THEN <<up.id>> ELSE <<>>) \o rest.ids]

\* Lines 345-358: the upload loop; a throw leaves the loop.
RECURSIVE TwitterMediaLoop(_, _, _)
TwitterMediaLoop(items, outs, i) ==
    IF i > Len(items) THEN [threw |-> FALSE, calls |-> <<>>, ids |-> <<>>]
    ELSE LET up == UploadMediaToTwitterV1(items[i], i, outs[i])
         IN  IF up.threw THEN [threw |-> TRUE, calls |-> up.calls, ids |-> <<>>]
             ELSE LET rest == TwitterMediaLoop(items, outs, i + 1)
                  IN  [threw |-> rest.threw,
                       calls |-> up.calls \o rest.calls,
                       ids |-> (IF up.id # 0 THEN <<up.id>> ELSE <<>>) \o rest.ids]

OAuth1aPairs == {"both", "tokenOnly", "secretOnly", "none"}

\* Mutant: the OAuth 1.0a token alone is taken as enough to upload.
HasOAuth1aTokenOnly(oauth1a) == oauth1a \in {"both", "tokenOnly"}

\* userAccount.oauth1aAccessToken && userAccount.oauth1aAccessTokenSecret
HasOAuth1a(oauth1a) == oauth1a = "both"

\* postToTwitter, lines 330-422 (the body of the try).
PostToTwitterBody(token, oauth1a, media, env) ==
    LET up == IF MediaPresent(media) /\ HasOAuth1a(oauth1a)
              THEN TwitterMediaLoop(media.items, env.upload, 1)
              ELSE [threw |-> FALSE, calls |-> <<>>, ids |-> <<>>]
        mediaIds == IF up.threw THEN <<>> ELSE up.ids
        sent == up.calls \o <<Call("tweet", Outcome(env.publish))>>
    IN  IF token = "" THEN Thrown(up.calls, "No access token provided")
        ELSE IF env.publish.status = "network" THEN Thrown(sent, "fetch failed")
        ELSE IF env.publish.status = "non2xx"
        THEN Thrown(sent, "Twitter API error: status - body")
        ELSE IF env.publish.status = "badjson" THEN Thrown(sent, "invalid json")
        ELSE Returned(sent, mediaIds,
                      PubResult(TRUE, IF env.publish.id THEN "id" ELSE "unknown", ""))

PostToTwitter(token, oauth1a, media, env) ==
    CatchToResult(PostToTwitterBody(token, oauth1a, media, env))

(***************************************************************************)
(* Reddit and LinkedIn upload one item in three requests (lease or         *)
(* registerUpload, fetch of the source, upload); `out` names the request   *)
(* that fails, or is "ok".  A failing upload throws out of the loop.       *)
(***************************************************************************)
RedditUploadSteps == <<"lease", "fetch", "put">>
LinkedinUploadSteps == <<"registerUpload", "fetch", "put">>

UploadOutcomes(steps) == Range(steps) \cup {"ok"}

\* Mutant: a failing upload is skipped and the loop goes on.
RECURSIVE UploadAllSkipFailed(_, _, _, _)
UploadAllSkipFailed(steps, n, outs, i) ==
    IF i > n THEN [threw |-> FALSE, calls |-> <<>>, ids |-> <<>>]
    ELSE LET rest == UploadAllSkipFailed(steps, n, outs, i + 1)
             failed == outs[i] \in Range(steps)
         IN  [threw |-> FALSE,
              calls |-> (IF failed THEN TraceUntil(steps, outs[i]) ELSE AllOk(steps))
                           \o rest.calls,
              ids |-> (IF failed THEN <<>> ELSE <<i>>) \o rest.ids]

RECURSIVE UploadAll(_, _, _, _)
UploadAll(steps, n, outs, i) ==
    IF i > n THEN [threw |-> FALSE, calls |-> <<>>, ids |-> <<>>]
    ELSE IF outs[i] \in Range(steps)
    THEN [threw |-> TRUE, calls |-> TraceUntil(steps, outs[i]), ids |-> <<>>]
    ELSE LET rest == UploadAll(steps, n, outs, i + 1)
         IN  [threw |-> rest.threw,
              calls |-> AllOk(steps) \o rest.calls,
              ids |-> <<i>> \o rest.ids]

\* JSON.stringify of an array of strings.
RECURSIVE JoinQuoted(_)
JoinQuoted(errors) ==
    IF errors = <<>> THEN ""
    ELSE "\"" \o Head(errors) \o "\""
            \o (IF Len(errors) > 1 THEN "," \o JoinQuoted(Tail(errors)) ELSE "")

Stringify(errors) == "[" \o JoinQuoted(errors) \o "]"

RedditResponses ==
    FailedResponses
        \cup {Response("ok", errors, id, page) :
                 errors \in {<<>>, <<"RATELIMIT">>}, id \in BOOLEAN, page \in BOOLEAN}

\* Lines 686-706 and 821-841: gallery and plain text submissions.
SubmitChecked(sent, payload, resp) ==
    IF resp.status = "network" THEN Thrown(sent, "fetch failed")
    ELSE IF resp.status = "non2xx" THEN Thrown(sent, "Reddit post failed: status")
    ELSE IF resp.status = "badjson" THEN Thrown(sent, "invalid json")
    ELSE IF resp.errors # <<>>
    THEN Thrown(sent, "Reddit API error: " \o Stringify(resp.errors))
    ELSE IF ~resp.id THEN Thrown(sent, "Reddit post failed - no post ID returned")
    ELSE Returned(sent, payload, PubResult(TRUE, "id", ""))

\* Lines 736-766: the single-image submission.
SubmitImage(sent, payload, resp) ==
    IF resp.status = "network" THEN Thrown(sent, "fetch failed")
    ELSE IF resp.status = "non2xx"
    THEN Thrown(sent, "Reddit single image post failed: status")
    ELSE IF resp.status = "badjson" THEN Thrown(sent, "invalid json")
    ELSE IF resp.errors # <<>>
    THEN Thrown(sent, "Reddit API error: " \o Stringify(resp.errors))
    ELSE IF ~resp.id /\ ~resp.page
    THEN Thrown(sent, "Reddit post failed - no post confirmation returned")
    ELSE Returned(sent, payload,
                  PubResult(TRUE, IF resp.id THEN "id" ELSE "unknown", ""))

\* Lines 779-796: the text submission made for a media object that is not
\* an array.
SubmitUnchecked(sent, resp) ==
    IF resp.status = "network" THEN Thrown(sent, "fetch failed")
    ELSE IF resp.status = "non2xx" THEN Thrown(sent, "Reddit post failed: status")
    ELSE IF resp.status = "badjson" THEN Thrown(sent, "invalid json")
    ELSE Returned(sent, <<>>,
                  PubResult(TRUE, IF resp.id THEN "id" ELSE "unknown", ""))

\* postToReddit, lines 626-842 (the body of the try).
\* Mutant: a failed upload makes postToReddit fall back to a text post.
PostToRedditBodyTextFallback(media, env) ==
    LET n == Len(media.items)
        out == Outcome(env.publish)
    IN  IF MediaPresent(media) /\ media.isArray /\ n >= 1
        THEN LET up == UploadAll(RedditUploadSteps, n, env.upload, 1)
             IN  IF up.threw
                 THEN SubmitChecked(up.calls \o <<Call("submit_self", out)>>,
                                    <<>>, env.publish)
                 ELSE IF n > 1
                 THEN SubmitChecked(
                          up.calls \o <<Call("submit_gallery_post", out)>>,
                          up.ids, env.publish)
                 ELSE SubmitImage(up.calls \o <<Call("submit_image", out)>>,
                                  up.ids, env.publish)
        ELSE IF MediaPresent(media)
        THEN SubmitUnchecked(<<Call("submit_self", out)>>, env.publish)
        ELSE SubmitChecked(<<Call("submit_self", out)>>, <<>>, env.publish)

PostToRedditBody(media, env) ==
    LET n == Len(media.items)
        out == Outcome(env.publish)
    IN  IF MediaPresent(media)
        THEN IF media.isArray /\ n > 1
             THEN LET up == UploadAll(RedditUploadSteps, n, env.upload, 1)
                  IN  IF up.threw THEN Thrown(up.calls, "upload failed")
                      ELSE SubmitChecked(
                               up.calls \o <<Call("submit_gallery_post", out)>>,
                               up.ids, env.publish)
             ELSE IF media.isArray /\ n = 1
             THEN LET up == UploadAll(RedditUploadSteps, 1, env.upload, 1)
                  IN  IF up.threw THEN Thrown(up.calls, "upload failed")
                      ELSE SubmitImage(up.calls \o <<Call("submit_image", out)>>,
                                       up.ids, env.publish)
             ELSE SubmitUnchecked(<<Call("submit_self", out)>>, env.publish)
        ELSE SubmitChecked(<<Call("submit_self", out)>>, <<>>, env.publish)

PostToReddit(media, env) == CatchToResult(PostToRedditBody(media, env))

LinkedinImageLimit == 4    \* media.slice(0, 4)

\* postToLinkedin, lines 937-1054 (the body of the try).
PostToLinkedinBody(media, env) ==
    IF env.userinfo # "ok"
    THEN Thrown(<<Call("userinfo", "fail")>>, "Failed to get LinkedIn profile")
    ELSE LET n == IF media.isArray THEN Min(LinkedinImageLimit, Len(media.items))
                  ELSE Len(media.items)
             up == IF MediaPresent(media)
                   THEN UploadAll(LinkedinUploadSteps, n, env.upload, 1)
                   ELSE [threw |-> FALSE, calls |-> <<>>, ids |-> <<>>]
             first == <<Call("userinfo", "ok")>>
             sent == first \o up.calls \o <<Call("ugcPosts", Outcome(env.publish))>>
         IN  IF up.threw THEN Thrown(first \o up.calls, "upload failed")
             ELSE IF env.publish.status = "network" THEN Thrown(sent, "fetch failed")
             ELSE IF env.publish.status = "non2xx"
             THEN Thrown(sent, "LinkedIn API error: status")
             ELSE IF env.publish.status = "badjson" THEN Thrown(sent, "invalid json")
             ELSE Returned(sent, up.ids,
                           PubResult(TRUE,
                                     IF env.publish.id THEN "id" ELSE "linkedin_now",
                                     ""))

PostToLinkedin(media, env) == CatchToResult(PostToLinkedinBody(media, env))

(***************************************************************************)
(* SpecPub: one publisher call.  Init draws the publisher, its arguments   *)
(* and the answers of the remote services; the action makes the call.      *)
(***************************************************************************)
Env(upload, publish, userinfo) ==
    [upload |-> upload, publish |-> publish, userinfo |-> userinfo]

PubInput(fn, token, oauth1a, media, env) ==
    [fn |-> fn, token |-> token, oauth1a |-> oauth1a, media |-> media, env |-> env,
     done |-> FALSE, threw |-> FALSE, calls |-> <<>>, payload |-> <<>>,
     result |-> NoResult]

TwitterUploadAnswers(media) ==
    {outs \in [DOMAIN media.items -> UNION {TwitterUploadOutcomes(k) : k \in ItemKinds}] :
        \A i \in DOMAIN outs : outs[i] \in TwitterUploadOutcomes(media.items[i])}

InitPub ==
    /\ \E media \in MediaShapes : \E publish \in RedditResponses :
          \/ /\ publish \in PlainResponses
             /\ \E token \in {"tok", ""}, oauth1a \in OAuth1aPairs :
                   \E upload \in TwitterUploadAnswers(media) :
                      pub = PubInput("twitter", token, oauth1a, media,
                                     Env(upload, publish, "ok"))
          \/ \E upload \in [DOMAIN media.items -> UploadOutcomes(RedditUploadSteps)] :
                pub = PubInput("reddit", "tok", "none", media,
                               Env(upload, publish, "ok"))
          \/ /\ publish \in PlainResponses
             /\ \E userinfo \in {"ok", "fail"} :
                   \E upload \in [DOMAIN media.items ->
                                     UploadOutcomes(LinkedinUploadSteps)] :
                      pub = PubInput("linkedin", "tok", "none", media,
                                     Env(upload, publish, userinfo))
    /\ posts = [p \in PostIds |-> NewPost("u1", <<"twitter">>, StartClock)]
    /\ accounts = [u \in Users |-> [pl \in Platforms |-> ValidAccount]]
    /\ postsCount = [u \in Users |-> Cardinality(PostIds)]
    /\ InitWorld
    /\ InitRuns
    /\ InitSelIdle
    /\ InitCronIdle
    /\ InitApiIdle

Finish(input, outcome) ==
    [input EXCEPT !.done = TRUE, !.threw = outcome.threw, !.calls = outcome.calls,
                  !.payload = outcome.payload, !.result = outcome.result]

CallTwitter ==
    /\ ~pub.done
    /\ pub.fn = "twitter"
    /\ pub' = Finish(pub, PostToTwitter(pub.token, pub.oauth1a, pub.media, pub.env))
    /\ UNCHANGED <<clock, storeVars, abandoned, runsStarted, populated, flows, runVars, histVars,
                   selVars, cronVars, apiVars>>

CallReddit ==
    /\ ~pub.done
    /\ pub.fn = "reddit"
    /\ pub' = Finish(pub, PostToReddit(pub.media, pub.env))
    /\ UNCHANGED <<clock, storeVars, abandoned, runsStarted, populated, flows, runVars, histVars,
                   selVars, cronVars, apiVars>>

CallLinkedin ==
    /\ ~pub.done
    /\ pub.fn = "linkedin"
    /\ pub' = Finish(pub, PostToLinkedin(pub.media, pub.env))
    /\ UNCHANGED <<clock, storeVars, abandoned, runsStarted, populated, flows, runVars, histVars,
                   selVars, cronVars, apiVars>>

NextPub ==
    \/ CallTwitter
    \/ CallReddit
    \/ CallLinkedin

SpecPub == InitPub /\ [][NextPub]_vars

(***************************************************************************)
(* SpecOAuth: the connect callbacks and the disconnect request, which are  *)
(* the writers of User.connectedAccounts.  signup (auth.js, lines 96-104)  *)
(* creates the three accounts as {connected: false}.  Each handler reads   *)
(* the user, assigns one platform's account object and saves.  Assigning   *)
(* an object to a nested path replaces the account: the fields the object  *)
(* does not name are unset.  A token field that is null or undefined reads *)
(* "".  The remote services answer the token exchange and the profile      *)
(* request well or not; a good answer carries the tokens.                  *)
(***************************************************************************)
OAuthUsers == {"u1", "u2"}

Account(connected, accessToken, refreshToken, oauth2, refresh2, oauth1a, secret, needs) ==
    [exists |-> TRUE, connected |-> connected, accessToken |-> accessToken,
     refreshToken |-> refreshToken, oauth2AccessToken |-> oauth2,
     oauth2RefreshToken |-> refresh2, oauth1aAccessToken |-> oauth1a,
     oauth1aAccessTokenSecret |-> secret, needsOAuth1a |-> needs]

\* {connected: false}, as signup and disconnect leave an account.
SignedUpAccount == Account(FALSE, "", "", "", "", "", "", FALSE)

InitOAuth ==
    /\ accounts = [u \in OAuthUsers |-> [pl \in Platforms |-> SignedUpAccount]]
    /\ posts = [p \in PostIds |-> NewPost("u1", <<"twitter">>, StartClock)]
    /\ postsCount = [u \in Users |-> Cardinality(PostIds)]
    /\ InitWorld
    /\ InitRuns
    /\ InitSide

OAuthFrame ==
    UNCHANGED <<clock, posts, postsCount, abandoned, runsStarted, populated, runVars,
                histVars, sideVars>>

\* handleTwitterOAuth with a code (oauth.js, lines 38-197): the account is
\* written at lines 93-108, before the OAuth 1.0a request token is asked for.
TwitterOAuth2Account ==
    Account(FALSE, "oauth2tok", "oauth2refresh", "oauth2tok", "oauth2refresh",
            "", "", TRUE)

TwitterOAuth2Callback(u) ==
    /\ \E tokenOk \in BOOLEAN, userOk \in BOOLEAN :
          accounts' = IF tokenOk /\ userOk
                      THEN [accounts EXCEPT ![u]["twitter"] = TwitterOAuth2Account]
                      ELSE accounts
    /\ OAuthFrame

\* README.md, line 333: user.connectedAccounts && user.connectedAccounts.twitter
HasTwitterAccount(account) == account.exists

\* handleCallback of the OAuth 1.0a handler (README.md, lines 283-358).  The
\* user is the userId query parameter of the callback URL.
TwitterOAuth1aAccount(account) ==
    [account EXCEPT !.connected = TRUE,
                    !.oauth1aAccessToken = "oauth1atok",
                    !.oauth1aAccessTokenSecret = "oauth1asecret",
                    !.needsOAuth1a = FALSE,
                    !.accessToken = account.oauth2AccessToken,
                    !.refreshToken = account.oauth2RefreshToken]

TwitterOAuth1aCallback(u) ==
    /\ \E tokenOk \in BOOLEAN :
          accounts' = IF tokenOk /\ HasTwitterAccount(accounts[u]["twitter"])
                      THEN [accounts EXCEPT ![u]["twitter"] = TwitterOAuth1aAccount(@)]
                      ELSE accounts
    /\ OAuthFrame

\* oauth.js, lines 318-327: the account handleRedditOAuth stores.
RedditAccount == Account(TRUE, "reddittok", "redditrefresh", "", "", "", "", FALSE)

\* handleRedditOAuth with a code (oauth.js, lines 273-339).
RedditCallback(u) ==
    /\ \E tokenOk \in BOOLEAN, userOk \in BOOLEAN :
          accounts' = IF tokenOk /\ userOk
                      THEN [accounts EXCEPT ![u]["reddit"] = RedditAccount]
                      ELSE accounts
    /\ OAuthFrame

\* oauth.js, lines 440-448: the account handleLinkedInOAuth stores.
LinkedInAccount == Account(TRUE, "linkedintok", "", "", "", "", "", FALSE)

\* handleLinkedInOAuth with a code (oauth.js, lines 377-461).
LinkedInCallback(u) ==
    /\ \E tokenOk \in BOOLEAN, profileOk \in BOOLEAN :
          accounts' = IF tokenOk /\ profileOk
                      THEN [accounts EXCEPT ![u]["linkedin"] = LinkedInAccount]
                      ELSE accounts
    /\ OAuthFrame

\* Mutant: the assignment is merged into the stored account, keeping the
\* fields it does not name.
DisconnectMerge(u, pl) ==
    /\ accounts' = [accounts EXCEPT ![u][pl] =
                       [@ EXCEPT !.connected = FALSE, !.accessToken = "",
                                 !.refreshToken = ""]]
    /\ OAuthFrame

\* The disconnect request (disconnect.js, lines 6-61).
Disconnect(u, pl) ==
    /\ accounts' = [accounts EXCEPT ![u][pl] = SignedUpAccount]
    /\ OAuthFrame

NextOAuth ==
    /\ \E u \in OAuthUsers :
          \/ TwitterOAuth2Callback(u)
          \/ TwitterOAuth1aCallback(u)
          \/ RedditCallback(u)
          \/ LinkedInCallback(u)
          \/ \E pl \in Platforms : Disconnect(u, pl)
    /\ UNCHANGED flows

SpecOAuth == InitOAuth /\ [][NextOAuth]_vars

(***************************************************************************)
(* SpecConnect: who can make a connect callback write an account.  Each   *)
(* party holds the session token signed for it at login and can make up   *)
(* unsigned values at will.  A callback is presented by a party `by` and   *)
(* names a user u through its state or userId parameter.                   *)
(***************************************************************************)
Token(u, sig) == [userId |-> u, sig |-> sig]

\* jwt.verify(token, process.env.JWT_SECRET)
JwtVerify(tok) == tok.sig = "server"

\* JSON.parse(Buffer.from(state, 'base64').toString()).userId
DecodeState(tok) == tok.userId

\* The value naming u that party `by` can present: the token signed for
\* itself, or for another user a value it made up.
Presented(by, u) == IF by = u THEN Token(u, "server") ELSE Token(u, "none")

StartKinds == {"twitter", "oauth1a", "reddit"}

\* The flow is started with the party's own token: oauth.js, lines 205-218
\* (Twitter, the signed state token), lines 255-256 (Reddit, the base64
\* state), README.md, lines 221-275 (OAuth 1.0a, the callback URL with
\* userId and the request token).
StartFlow(by, kind) ==
    /\ JwtVerify(Presented(by, by))
    /\ <<kind, by>> \notin flows.started
    /\ flows' = [flows EXCEPT !.started = @ \cup {<<kind, by>>}]
    /\ UNCHANGED accounts
    /\ OAuthFrame

Record(kind, by, u) ==
    flows' = [flows EXCEPT !.last = IF accounts' # accounts
                                    THEN [kind |-> kind, by |-> by, user |-> u]
                                    ELSE @]

\* oauth.js, lines 47 and 90: the state must verify; it carries the code
\* verifier of the flow it was signed for.
ConnectTwitterOAuth2(by, u) ==
    /\ JwtVerify(Presented(by, u))
    /\ <<"twitter", u>> \in flows.started
    /\ TwitterOAuth2Callback(u)
    /\ Record("twitter", by, u)

\* README.md, lines 285-316: the request token of the presenting party is
\* exchanged; userId is read from the query string.
ConnectTwitterOAuth1a(by, u) ==
    /\ <<"oauth1a", by>> \in flows.started
    /\ TwitterOAuth1aCallback(u)
    /\ Record("oauth1a", by, u)

\* oauth.js, lines 273-275: the state is decoded, not verified.
ConnectReddit(by, u) ==
    /\ DecodeState(Presented(by, u)) = u
    /\ RedditCallback(u)
    /\ Record("reddit", by, u)

\* oauth.js, lines 417-437: the session token (cookie, header or state)
\* must verify.
ConnectLinkedIn(by, u) ==
    /\ JwtVerify(Presented(by, u))
    /\ LinkedInCallback(u)
    /\ Record("linkedin", by, u)

NextConnect ==
    \E by \in OAuthUsers :
        \/ \E kind \in StartKinds : StartFlow(by, kind)
        \/ \E u \in OAuthUsers :
              \/ ConnectTwitterOAuth2(by, u)
              \/ ConnectTwitterOAuth1a(by, u)
              \/ ConnectReddit(by, u)
              \/ ConnectLinkedIn(by, u)

SpecConnect == InitOAuth /\ [][NextConnect]_vars

(***************************************************************************)
(* SpecDisconnect: batch runs, disconnect requests and reconnections.      *)
(* Both users have completed every connect flow; the posts belong to u1,  *)
(* who disconnects Twitter or Reddit and may connect Reddit again, before, *)
(* between and during the runs.  One post is due, for Twitter and Reddit;  *)
(* the other is not due within the clock range.                            *)
(***************************************************************************)
ConnectedAccounts ==
    [pl \in Platforms |->
        IF pl = "twitter" THEN TwitterOAuth1aAccount(TwitterOAuth2Account)
        ELSE IF pl = "reddit" THEN RedditAccount
        ELSE LinkedInAccount]

Owners == {"u1"}

InitDisconnect ==
    /\ accounts = [u \in OAuthUsers |-> ConnectedAccounts]
    /\ posts = [p \in PostIds |->
                   IF p = "p1" THEN NewPost("u1", <<"twitter", "reddit">>, StartClock)
                   ELSE NewPost("u1", <<"reddit">>, StartClock + MaxClock + 1)]
    /\ postsCount = [u \in Users |-> Cardinality(PostIds)]
    /\ InitWorld
    /\ InitRuns
    /\ InitSide

NextDisconnect ==
    \/ RunStep(1)
    \/ \E p \in PostIds : AbandonedCallReturns(p)
    \/ ClockTick(TRUE)
    \/ /\ \E u \in Owners :
             \/ \E pl \in {"twitter", "reddit"} : Disconnect(u, pl)
             \/ RedditCallback(u)
       /\ UNCHANGED flows

SpecDisconnect == InitDisconnect /\ [][NextDisconnect]_vars

(***************************************************************************)
(* SpecQuota: the posts API (disconnect.js, lines 181-427) next to the     *)
(* batch run.  schedulePost reads the user, counts the user's posts,       *)
(* saves the new post and then saves the user with postsCount + 1;         *)
(* deletePost deletes the post, reads the user and saves postsCount - 1.   *)
(* Each await is a step, so that requests interleave with each other and   *)
(* with the run.  user.save() validates postsCount against the schema's    *)
(* max and writes the value computed from the user as it was read.         *)
(*                                                                         *)
(* The user owns the posts of `posts` and otherPosts[u] further posts,     *)
(* scheduled far in the future, which the requests create and delete.      *)
(* The behaviours start from a user who has scheduled PostQuota posts or   *)
(* a few less, none of them published yet.                                 *)
(***************************************************************************)
PostQuota == 500           \* userPostsCount >= 500
PostsCountMax == 500       \* postsCount: {max: 500}
QuotaSlack == 1            \* the user starts with PostQuota - QuotaSlack .. PostQuota posts
MaxRequests == 2           \* requests to the posts API
Reqs == {1, 2}             \* requests served at the same time

NoTime == 0                \* a request body without scheduledTime

\* A request: its position, what it read, the status it answered and, for
\* schedulePost, the scheduledTime of its body and the post it created.
Request(op, at, u, read, status) ==
    [op |-> op, pc |-> at, user |-> u, read |-> read, status |-> status,
     scheduledTime |-> NoTime, created |-> FALSE, createdAt |-> NoTime]

NoRequest == Request("none", "idle", NoUser, 0, 0)

Respond(req, status) == [req EXCEPT !.pc = "done", !.status = status]

\* Post.countDocuments({userId})
CountDocuments(u) ==
    Cardinality({p \in DOMAIN posts : posts[p].userId = u}) + otherPosts[u]

InitQuota ==
    /\ posts = [p \in PostIds |->
                   IF p = "p1" THEN NewPost("u1", <<"twitter">>, StartClock)
                   ELSE NewPost("u1", <<"reddit">>, StartClock + 1)]
    /\ accounts = [u \in Users |-> [pl \in Platforms |-> ValidAccount]]
    /\ \E k \in 0 .. QuotaSlack :
          /\ otherPosts = [u \in Users |-> PostQuota - Cardinality(PostIds) - k]
          /\ postsCount = [u \in Users |-> PostQuota - k]
    /\ requests = [q \in Reqs |-> NoRequest]
    /\ requestsStarted = 0
    /\ InitWorld
    /\ InitRuns
    /\ InitSelIdle
    /\ InitCronIdle
    /\ InitPubIdle

ApiFrame ==
    UNCHANGED <<clock, posts, accounts, abandoned, runsStarted, populated, flows, runVars, histVars,
                selVars, cronVars, pubVars>>

SlotFree(q) == requests[q].pc \in {"idle", "done"}

\* Line 325: !content || !scheduledTime || !platforms (content and
\* platforms are present in the requests of this model).
BodyIncomplete(t) == t = NoTime

\* schedulePost, lines 312-335: a request of user u with scheduledTime t:
\* the body is checked for presence, then the user is read.
ScheduleStart(q, u, t) ==
    /\ SlotFree(q)
    /\ requestsStarted < MaxRequests
    /\ requestsStarted' = requestsStarted + 1
    /\ requests' = [requests EXCEPT ![q] =
                       IF BodyIncomplete(t)
                       THEN Request("schedule", "done", u, 0, 400)
                       ELSE [Request("schedule", "count", u, postsCount[u], 0)
                                EXCEPT !.scheduledTime = t]]
    /\ UNCHANGED <<otherPosts, postsCount>>
    /\ ApiFrame

\* Line 338: userPostsCount >= 500
AtQuota(count) == count >= PostQuota

\* Lines 337-342: the count resolves and is compared with the limit.
ScheduleCounted(q) ==
    /\ requests[q].op = "schedule"
    /\ requests[q].pc = "count"
    /\ requests' = [requests EXCEPT ![q] =
                       IF AtQuota(CountDocuments(requests[q].user))
                       THEN Respond(@, 400)
                       ELSE [@ EXCEPT !.pc = "savePost"]]
    /\ UNCHANGED <<otherPosts, postsCount, requestsStarted>>
    /\ ApiFrame

\* Lines 364-374: post.save() creates the post, or throws.
SchedulePostSaved(q) ==
    /\ requests[q].op = "schedule"
    /\ requests[q].pc = "savePost"
    /\ \E saveOk \in BOOLEAN :
          IF saveOk
          THEN /\ otherPosts' = [otherPosts EXCEPT ![requests[q].user] = @ + 1]
               /\ requests' = [requests EXCEPT ![q] =
                                  [@ EXCEPT !.pc = "saveUser", !.created = TRUE,
                                            !.createdAt = clock]]
          ELSE /\ requests' = [requests EXCEPT ![q] = Respond(@, 500)]
               /\ UNCHANGED otherPosts
    /\ UNCHANGED <<postsCount, requestsStarted>>
    /\ ApiFrame

\* user.save() with postsCount assigned: the max validator, then the write.
SaveUser(req, count, okStatus) ==
    IF count > PostsCountMax
    THEN /\ requests' = [q \in Reqs |->
                            IF requests[q] = req THEN Respond(req, 500) ELSE requests[q]]
         /\ UNCHANGED postsCount
    ELSE \E saveOk \in BOOLEAN :
            IF saveOk
            THEN /\ postsCount' = [postsCount EXCEPT ![req.user] = count]
                 /\ requests' = [q \in Reqs |->
                                    IF requests[q] = req THEN Respond(req, okStatus)
                                    ELSE requests[q]]
            ELSE /\ requests' = [q \in Reqs |->
                                    IF requests[q] = req THEN Respond(req, 500)
                                    ELSE requests[q]]
                 /\ UNCHANGED postsCount

\* Lines 376-382: user.postsCount = (user.postsCount || 0) + 1; user.save().
ScheduleUserSaved(q) ==
    /\ requests[q].op = "schedule"
    /\ requests[q].pc = "saveUser"
    /\ SaveUser(requests[q], requests[q].read + 1, 201)
    /\ UNCHANGED <<otherPosts, requestsStarted>>
    /\ ApiFrame

\* deletePost, lines 390-409: Post.findOneAndDelete({_id, userId}).
DeleteStart(q, u) ==
    /\ SlotFree(q)
    /\ requestsStarted < MaxRequests
    /\ requestsStarted' = requestsStarted + 1
    /\ IF otherPosts[u] > 0
       THEN /\ otherPosts' = [otherPosts EXCEPT ![u] = @ - 1]
            /\ requests' = [requests EXCEPT ![q] = Request("delete", "findUser", u, 0, 0)]
       ELSE /\ requests' = [requests EXCEPT ![q] = Request("delete", "done", u, 0, 404)]
            /\ UNCHANGED otherPosts
    /\ UNCHANGED postsCount
    /\ ApiFrame

\* Lines 413-414: the user is read; postsCount > 0 goes on to the save.
DeleteUserFound(q) ==
    /\ requests[q].op = "delete"
    /\ requests[q].pc = "findUser"
    /\ requests' = [requests EXCEPT ![q] =
                       IF postsCount[requests[q].user] > 0
                       THEN [@ EXCEPT !.pc = "saveUser",
                                      !.read = postsCount[requests[q].user]]
                       ELSE Respond(@, 200)]
    /\ UNCHANGED <<otherPosts, postsCount, requestsStarted>>
    /\ ApiFrame

\* Lines 415-419: user.postsCount = user.postsCount - 1; user.save().
DeleteUserSaved(q) ==
    /\ requests[q].op = "delete"
    /\ requests[q].pc = "saveUser"
    /\ SaveUser(requests[q], requests[q].read - 1, 200)
    /\ UNCHANGED <<otherPosts, requestsStarted>>
    /\ ApiFrame

NextQuota ==
    \/ RunStep(1)
    \/ \E p \in PostIds : AbandonedCallReturns(p)
    \/ \E q \in Reqs :
          \/ \E u \in Users : ScheduleStart(q, u, StartClock + 1)
          \/ ScheduleCounted(q)
          \/ SchedulePostSaved(q)
          \/ ScheduleUserSaved(q)
          \/ \E u \in Users : DeleteStart(q, u)
          \/ DeleteUserFound(q)
          \/ DeleteUserSaved(q)

SpecQuota == InitQuota /\ [][NextQuota]_vars

(***************************************************************************)
(* SpecSchedule: schedulePost requests whose scheduledTime is absent, in   *)
(* the past, the present minute or the future, while the clock advances.   *)
(***************************************************************************)
RequestTimes == {NoTime} \cup (StartClock - 1 .. StartClock + MaxClock + 1)

NextSchedule ==
    \/ ClockTick(FALSE)
    \/ \E q \in Reqs :
          \/ \E u \in Users, t \in RequestTimes : ScheduleStart(q, u, t)
          \/ ScheduleCounted(q)
          \/ SchedulePostSaved(q)
          \/ ScheduleUserSaved(q)

SpecSchedule == InitQuota /\ [][NextSchedule]_vars

(***************************************************************************)
(* SpecSign: generateOAuthSignature, a pure function of its arguments.     *)
(* The scheduler (part_002 lines 8-25) and the OAuth 1.0a handler          *)
(* (README.md lines 162-172) each carry a copy.  A params object is a      *)
(* sequence of key/value pairs with distinct keys, in insertion order,     *)
(* which is the order Object.keys returns for keys that are not integers.  *)
(* Strings are kept as strings: upper-casing, percent-encoding and the     *)
(* comparison of the default sort work on their characters.                *)
(***************************************************************************)
MaxParams == 2

Methods == {"POST", "post", "Get"}

Urls == {"https://up/media.json"}

ParamKeys == {"oauth_nonce", "oauth_token", "Status", "a&b"}

ParamValues == {"v1", "a b&c=d"}

ConsumerSecrets == {"cs%1"}

\* tokenSecret defaults to '' when the caller leaves it out
TokenSecrets == {"", "ts/1"}

\* String.prototype.toUpperCase on the letters of Methods
UpperCase == "p" :> "P" @@ "o" :> "O" @@ "s" :> "S" @@ "t" :> "T" @@ "e" :> "E"

RECURSIVE ToUpperCase(_)
ToUpperCase(s) ==
    IF Len(s) = 0 THEN ""
    ELSE LET c == SubSeq(s, 1, 1)
         IN  (IF c \in DOMAIN UpperCase THEN UpperCase[c] ELSE c)
                \o ToUpperCase(SubSeq(s, 2, Len(s)))

\* encodeURIComponent: letters, digits and - _ . ! ~ * ' ( ) stay, every
\* other character becomes its percent escape
Escape ==
    " " :> "%20" @@ "%" :> "%25" @@ "&" :> "%26" @@ "/" :> "%2F" @@ ":" :> "%3A"
        @@ "=" :> "%3D"

RECURSIVE EncodeURIComponent(_)
EncodeURIComponent(s) ==
    IF Len(s) = 0 THEN ""
    ELSE LET c == SubSeq(s, 1, 1)
         IN  (IF c \in DOMAIN Escape THEN Escape[c] ELSE c)
                \o EncodeURIComponent(SubSeq(s, 2, Len(s)))

\* UTF-16 code units of the characters of ParamKeys
CodeUnit ==
    "&" :> 38 @@ "S" :> 83 @@ "_" :> 95 @@ "a" :> 97 @@ "b" :> 98 @@ "c" :> 99
        @@ "e" :> 101 @@ "h" :> 104 @@ "k" :> 107 @@ "n" :> 110 @@ "o" :> 111
        @@ "s" :> 115 @@ "t" :> 116 @@ "u" :> 117

\* the comparison of Array.prototype.sort without a comparator: by code
\* units, a proper prefix before the longer string
RECURSIVE Less(_, _)
Less(s, t) ==
    IF Len(t) = 0 THEN FALSE
    ELSE IF Len(s) = 0 THEN TRUE
    ELSE LET a == CodeUnit[SubSeq(s, 1, 1)]
             b == CodeUnit[SubSeq(t, 1, 1)]
         IN  IF a # b THEN a < b
             ELSE Less(SubSeq(s, 2, Len(s)), SubSeq(t, 2, Len(t)))

KeepOrder(keys) == keys

RECURSIVE Sort(_)
Sort(keys) ==
    IF keys = <<>> THEN <<>>
    ELSE LET least == CHOOSE i \in DOMAIN keys :
                         \A j \in DOMAIN keys : ~Less(keys[j], keys[i])
             rest  == [j \in 1 .. Len(keys) - 1 |->
                          IF j < least THEN keys[j] ELSE keys[j + 1]]
         IN  <<keys[least]>> \o Sort(rest)

ObjectKeys(params) == [i \in DOMAIN params |-> params[i].key]

Lookup(params, key) == params[CHOOSE i \in DOMAIN params : params[i].key = key].value

RECURSIVE Join(_, _)
Join(parts, sep) ==
    IF parts = <<>> THEN ""
    ELSE IF Len(parts) = 1 THEN parts[1]
    ELSE parts[1] \o sep \o Join(Tail(parts), sep)

\* crypto.createHmac('sha1', key).update(data).digest('base64'): the digest
\* is kept as the pair it is computed from, so two digests are equal exactly
\* when key and data are
HmacSha1Base64(key, data) == [key |-> key, data |-> data]

NoSignature == [key |-> "", data |-> ""]

\* part_002 lines 10-13
SortedParams(params) ==
    LET keys == Sort(ObjectKeys(params))
    IN  Join([i \in DOMAIN keys |->
                 EncodeURIComponent(keys[i]) \o "="
                    \o EncodeURIComponent(Lookup(params, keys[i]))], "&")

\* part_002 line 16
SignatureBaseString(method, url, params) ==
    ToUpperCase(method) \o "&" \o EncodeURIComponent(url) \o "&"
       \o EncodeURIComponent(SortedParams(params))

\* part_002 line 19
SigningKey(consumerSecret, tokenSecret) ==
    EncodeURIComponent(consumerSecret) \o "&" \o EncodeURIComponent(tokenSecret)

\* part_002 lines 8-25
GenerateOAuthSignature(method, url, params, consumerSecret, tokenSecret) ==
    HmacSha1Base64(SigningKey(consumerSecret, tokenSecret),
                   SignatureBaseString(method, url, params))

\* README.md lines 163-166
HandlerSortedParams(params) ==
    LET keys == Sort(ObjectKeys(params))
    IN  Join([i \in DOMAIN keys |->
                 EncodeURIComponent(keys[i]) \o "="
                    \o EncodeURIComponent(Lookup(params, keys[i]))], "&")

\* README.md line 168
BaseString(method, url, params) ==
    ToUpperCase(method) \o "&" \o EncodeURIComponent(url) \o "&"
       \o EncodeURIComponent(HandlerSortedParams(params))

\* README.md lines 162-172
HandlerGenerateOAuthSignature(method, url, params, consumerSecret, tokenSecret) ==
    HmacSha1Base64(EncodeURIComponent(consumerSecret) \o "&"
                      \o EncodeURIComponent(tokenSecret),
                   BaseString(method, url, params))

ParamObjects ==
    UNION {{[i \in 1 .. n |-> [key |-> keys[i], value |-> values[i]]] :
               keys \in Arrangements(ParamKeys, n), values \in [1 .. n -> ParamValues]} :
           n \in 0 .. MaxParams}

SignInput(method, url, params, consumerSecret, tokenSecret) ==
    [fn |-> "sign", method |-> method, url |-> url, params |-> params,
     consumerSecret |-> consumerSecret, tokenSecret |-> tokenSecret,
     scheduler |-> NoSignature, handler |-> NoSignature,
     inserted |-> <<>>, reordered |-> NoSignature]

InitSign ==
    /\ \E method \in Methods, url \in Urls, params \in ParamObjects :
          \E consumerSecret \in ConsumerSecrets, tokenSecret \in TokenSecrets :
             pub = SignInput(method, url, params, consumerSecret, tokenSecret)
    /\ posts = [p \in PostIds |-> NewPost("u1", <<"twitter">>, StartClock)]
    /\ accounts = [u \in Users |-> [pl \in Platforms |-> ValidAccount]]
    /\ postsCount = [u \in Users |-> Cardinality(PostIds)]
    /\ InitWorld
    /\ InitRuns
    /\ InitSelIdle
    /\ InitCronIdle
    /\ InitApiIdle

SignFrame ==
    UNCHANGED <<clock, storeVars, abandoned, runsStarted, populated, flows, runVars, histVars,
                selVars, cronVars, apiVars>>

\* the scheduler signs a request (part_002 line 42)
SchedulerSigns ==
    /\ pub.scheduler = NoSignature
    /\ pub' = [pub EXCEPT !.scheduler =
                  GenerateOAuthSignature(pub.method, pub.url, pub.params,
                                         pub.consumerSecret, pub.tokenSecret)]
    /\ SignFrame

\* the OAuth 1.0a handler signs a request with the same arguments (README.md
\* line 191)
HandlerSigns ==
    /\ pub.handler = NoSignature
    /\ pub' = [pub EXCEPT !.handler =
                  HandlerGenerateOAuthSignature(pub.method, pub.url, pub.params,
                                                pub.consumerSecret, pub.tokenSecret)]
    /\ SignFrame

\* a caller that built the same parameters in another insertion order
SignsInserted(order) ==
    /\ pub.reordered = NoSignature
    /\ Len(pub.params) > 0
    /\ pub' = [pub EXCEPT !.inserted = order,
                          !.reordered =
                  GenerateOAuthSignature(pub.method, pub.url, order,
                                         pub.consumerSecret, pub.tokenSecret)]
    /\ SignFrame

NextSign ==
    \/ SchedulerSigns
    \/ HandlerSigns
    \/ \E order \in Arrangements(Range(pub.params), Len(pub.params)) : SignsInserted(order)

SpecSign == InitSign /\ [][NextSign]_vars

(***************************************************************************)
(* Claims.                                                                 *)
(***************************************************************************)
AnySuccess(pr) == \E key \in DOMAIN pr : pr[key].success

\* Platforms of the attempts atts whose every publisher call returned success.
Succeeded(atts) ==
    {pl \in Platforms :
        /\ \E k \in DOMAIN atts : atts[k].platform = pl
        /\ \A k \in DOMAIN atts :
              atts[k].platform = pl => atts[k].state = "fulfilled" /\ atts[k].success}

\* The step of run r that joins, aggregates and saves its current post.
SaveStep(r) == pc[r] = "awaiting" /\ pc'[r] # "awaiting"

\* The step in which run r starts and its query returns.
Selects(r) ==
    /\ runsStarted' > runsStarted
    /\ ~Active(r)
    /\ pc'[r] # pc[r] \/ batch'[r] # batch[r]

\* C1: once the orchestrator is done with a post (recovery path included), the
\* persisted status is 'published' iff some persisted platformResults entry
\* has success = true.
C1_PublishedIffSomeSuccess ==
    \A p \in PostIds :
        ~InProgress(p) =>
            (posts[p].status = "published" <=> AnySuccess(posts[p].platformResults))

\* C2: in every state of the post store, publishedAt is set iff status is
\* 'published'.
C2_PublishedAtIffPublished ==
    \A p \in PostIds :
        posts[p].publishedAt # NotPublished <=> posts[p].status = "published"

\* C3: for every post a run has persisted, the keys of the persisted
\* platformResults are exactly the platforms the post requests.
C3_ResultKeysAreRequestedPlatforms ==
    \A p \in PostIds :
        (writes[p] > 0 /\ ~InProgress(p)) =>
            DOMAIN posts[p].platformResults = Range(posts[p].platforms)

\* C4: a post left 'published' has had the owner's postsCount incremented
\* exactly once for it, a post left 'failed' or 'scheduled' not at all.
C4_CountedOncePerPublishedPost ==
    \A p \in PostIds :
        ~InProgress(p) =>
            counted[p] = (IF posts[p].status = "published" THEN 1 ELSE 0)

\* C5: for one post, a run invokes each platform's publisher at most once,
\* whatever the stored platforms list.
C5_PublisherCalledAtMostOnce ==
    \A r \in Runs : \A pl \in Platforms :
        Cardinality({k \in DOMAIN attempts[r] :
                        attempts[r][k].called /\ attempts[r][k].platform = pl}) <= 1

\* C6: nothing locks a post: a run that starts selects every post that is
\* due and still 'scheduled', also one that another run is working on, so
\* that two overlapping runs both process it (the witness: postsCount
\* incremented twice for one post that both runs selected).
C6_NoPostLock ==
    [][\A r \in Runs :
          (Selects(r) /\ pc'[r] # "thrown") =>
              \A p \in PostIds : IsDue(posts[p], clock) => p \in Range(batch'[r])]_vars

C6_DoubleProcessed ==
    \E p \in PostIds :
        /\ counted[p] = 2
        /\ \A r \in Runs : p \in Range(batch[r])
        /\ posts[p].status = "published"

\* C7: over non-overlapping runs the orchestrator writes each post document
\* at most once.
C7_WrittenAtMostOnce == \A p \in PostIds : writes[p] <= 1

\* C8: no publisher call dispatched for a post is still running once the
\* post's result has been saved (later runs dispatch nothing for a saved
\* post, so a call running then was running when the save was made).
C8_NoCallInFlightOnceSaved ==
    \A p \in PostIds : writes[p] > 0 => abandoned[p] = 0

\* C9: at the join, the failure of one platform's attempt leaves the others'
\* outcomes alone: every platform whose publisher succeeded is recorded with
\* success = true, and the save that follows stores the post as 'published'
\* with those entries.
C9_SiblingFailureDoesNotSpread ==
    [][\A r \in Runs :
          SaveStep(r) =>
              LET p == Current(r)
                  ok == Succeeded(attempts[r])
              IN  /\ \A pl \in ok : mem'[r].platformResults[pl].success
                  /\ (ok # {} /\ writes'[p] > writes[p]) =>
                        /\ posts'[p].status = "published"
                        /\ \A pl \in ok : posts'[p].platformResults[pl].success]_vars

C9_PartialSuccessPublished ==
    \E p \in PostIds :
        /\ posts[p].status = "published"
        /\ counted[p] = 1
        /\ \E a, b \in DOMAIN posts[p].platformResults :
              /\ posts[p].platformResults[a].success
              /\ ~posts[p].platformResults[b].success

\* C10: every post the due-post query returns has status 'scheduled' and a
\* scheduledTime within [now - 5 min, now], and it returns at most 5 posts.
C10_SelectionWithinWindowAndLimit ==
    selDone =>
        /\ Len(selResult) <= BatchLimit
        /\ \A i \in DOMAIN selResult :
              /\ selStore[selResult[i]].status = "scheduled"
              /\ selStore[selResult[i]].scheduledTime <= selNow
              /\ selStore[selResult[i]].scheduledTime >= selNow - LookbackMinutes

C10_LimitAndEdgesReached ==
    /\ selDone
    /\ Len(selResult) = BatchLimit
    /\ Cardinality(DuePosts(selStore, selNow)) > BatchLimit
    /\ \E i \in DOMAIN selResult : selStore[selResult[i]].scheduledTime = selNow
    /\ \E i \in DOMAIN selResult :
          selStore[selResult[i]].scheduledTime = selNow - LookbackMinutes

\* The failure the claim C11 prescribes for an account, "" when the account
\* passes the three checks.
PreconditionError(account, pl) ==
    IF ~account.exists THEN pl \o " account not found"
    ELSE IF ~account.connected THEN pl \o " account not connected"
    ELSE IF account.accessToken = "" THEN pl \o " account missing access token"
    ELSE ""

Blocked(p, pl) == PreconditionError(accounts[posts[p].userId][pl], pl) # ""

AllBlocked(p) == \A pl \in Range(posts[p].platforms) : Blocked(p, pl)

\* C11: an attempt for a platform whose account is absent, not connected or
\* without access token (checked in that order) settles at once as a failure
\* with the matching error and without a publisher call; when every requested
\* platform fails this way the run stores the post as 'failed' with those
\* errors and never increments the owner's counter for it.
C11_PreconditionFailures ==
    /\ [](\A r \in Runs : \A k \in DOMAIN attempts[r] :
             pc[r] \in {"awaiting", "counter", "recover"} =>
                 LET pl == attempts[r][k].platform
                     err == PreconditionError(
                                accounts[posts[Current(r)].userId][pl], pl)
                 IN  err # "" =>
                        attempts[r][k] = Attempt(pl, "fulfilled", FALSE, FALSE, err))
    /\ [](\A p \in PostIds : AllBlocked(p) => counted[p] = 0 /\ abandoned[p] = 0)
    /\ [][\A r \in Runs :
             (SaveStep(r) /\ AllBlocked(Current(r))) =>
                 LET p == Current(r)
                 IN  /\ mem'[r].status = "failed"
                     /\ pc'[r] # "counter"
                     /\ postsCount' = postsCount
                     /\ writes'[p] > writes[p] =>
                           /\ posts'[p].status = "failed"
                           /\ \A pl \in Range(posts[p].platforms) :
                                 posts'[p].platformResults[pl] =
                                     [success |-> FALSE,
                                      error |-> PreconditionError(
                                                   accounts[posts[p].userId][pl], pl)]]_vars

C11_AllThreeKindsRecorded ==
    /\ posts["p1"].status = "failed"
    /\ writes["p1"] = 1
    /\ postsCount["u1"] = Cardinality(PostIds)
    /\ DOMAIN posts["p1"].platformResults = Platforms
    /\ posts["p1"].platformResults["twitter"].error = "twitter account not found"
    /\ posts["p1"].platformResults["reddit"].error = "reddit account not connected"
    /\ posts["p1"].platformResults["linkedin"].error = "linkedin account missing access token"

\* Run r has ended at the budget check, before the post at position idx[r].
CutOff(r) == pc[r] = "done" /\ idx[r] \in 1 .. Len(batch[r])

\* Post p is as schedulePost created it: no run has written or counted it.
Untouched(p) ==
    /\ posts[p] = NewPost(posts[p].userId, posts[p].platforms, posts[p].scheduledTime)
    /\ writes[p] = 0
    /\ counted[p] = 0

LeftOver(r) == IF CutOff(r) THEN {batch[r][k] : k \in idx[r] .. Len(batch[r])} ELSE {}

\* C13: a due post that a run left unprocessed stays 'scheduled' and is
\* selected and processed by a later run.  A later run selects it only while
\* its scheduledTime is within the last 5 minutes, so the claim needs: a
\* post left over by a cutoff and still 'scheduled' has not dropped out of
\* the lookback window.
C13_LeftoverStaysSelectable ==
    \A r \in Runs : \A p \in LeftOver(r) :
        posts[p].status = "scheduled" =>
            posts[p].scheduledTime >= clock - LookbackMinutes

Terminal(p) == posts[p].status \in {"published", "failed"}

\* C14: over non-overlapping runs, once a post is stored as 'published' or
\* 'failed' and the run that stored it has moved on, no run selects it, works
\* on it, leaves a publisher call running for it, or changes its document.
C14_TerminalPostsLeftAlone ==
    [][\A p \in PostIds :
          (Terminal(p) /\ ~InProgress(p)) =>
              /\ posts'[p] = posts[p]
              /\ (~InProgress(p))'
              /\ abandoned'[p] <= abandoned[p]
              /\ \A r \in Runs : Selects(r) => p \notin Range(batch'[r])]_vars

C14_FailedPostSkippedByLaterRun ==
    \E p \in PostIds :
        /\ posts[p].status = "failed"
        /\ writes[p] = 1
        /\ runsStarted = 2
        /\ pc[1] = "done"
        /\ IsDueAnyStatus(posts[p], clock)
        /\ p \notin Range(batch[1])

\* C15: an exception in a post's iteration (post.save or the counter update
\* rejecting) puts status 'failed' and the exception's message on the
\* document and leads to exactly one recovery save; after that save, whether
\* it succeeded or not, the run is back at the loop head with the next post,
\* which it dispatches unless the budget check stops it.
C15_ExceptionRecoveredRunContinues ==
    [][\A r \in Runs :
          /\ (pc[r] \in {"awaiting", "counter"} /\ pc'[r] = "recover") =>
                /\ mem'[r].status = "failed"
                /\ mem'[r].errorMessage =
                      (IF pc[r] = "awaiting" THEN "save failed"
                                             ELSE "counter update failed")
                /\ posts' = posts
          /\ (pc[r] = "recover" /\ pc'[r] # "recover") =>
                LET p == Current(r)
                IN  /\ pc'[r] = "loop"
                    /\ idx'[r] = idx[r] + 1
                    /\ batch'[r] = batch[r]
                    /\ \/ /\ writes'[p] = writes[p] + 1
                          /\ posts'[p].status = "failed"
                          /\ posts'[p].errorMessage = mem[r].errorMessage
                       \/ /\ writes'[p] = writes[p]
                          /\ posts' = posts
          /\ ( /\ pc[r] = "loop"
               /\ pc'[r] # "loop"
               /\ idx[r] <= Len(batch[r])
               /\ elapsed[r] <= MAX_EXECUTION_TIME - BudgetMargin ) =>
                /\ pc'[r] = "awaiting"
                /\ Len(attempts'[r]) = Len(posts[Current(r)].platforms)]_vars

C15_NextPostProcessedAfterException ==
    /\ Len(batch[1]) = 2
    /\ idx[1] = 3
    /\ posts[batch[1][1]].status = "failed"
    /\ posts[batch[1][1]].errorMessage = "save failed"
    /\ posts[batch[1][2]].status = "published"

\* C16 as stated: a run that threw (connection failed or timed out, query
\* failed) has been answered with HTTP 500.
C16_ThrowAnswered500 ==
    \A r \in Runs : pc[r] = "thrown" => responses = <<500>>

\* C16 amended: while a run connects and queries nothing is dispatched and
\* no post or user is written; the connection is abandoned at 3 s; when the
\* run throws, the handler answers 500 unless the 9 s timer has already
\* answered 408; a run that threw has left every post and counter as they
\* were.
C16_ThrowLeavesStateAndReportsFailure ==
    /\ [][\A r \in Runs :
             /\ pc[r] \in {"connecting", "querying"} =>
                   /\ UNCHANGED <<storeVars, abandoned, histVars>>
                   /\ attempts'[r] = <<>>
             /\ (pc[r] # "thrown" /\ pc'[r] = "thrown") =>
                   /\ pc[r] \in {"connecting", "querying"}
                   /\ handler' = "finished"
                   /\ responses' = (IF responses = <<>> THEN <<500>> ELSE <<408>>)]_vars
    /\ [](\A r \in Runs :
             /\ pc[r] = "connecting" => elapsed[r] <= ConnectTimeout
             /\ pc[r] = "thrown" =>
                   /\ responses \in {<<500>>, <<408>>}
                   /\ \A p \in PostIds : Untouched(p) /\ abandoned[p] = 0
                   /\ postsCount = [u \in Users |-> Cardinality(PostIds)])

C16_ConnectionTimeoutAnswered500 ==
    /\ pc[1] = "thrown"
    /\ elapsed[1] = ConnectTimeout
    /\ responses = <<500>>
    /\ handler = "finished"

Requests(calls) == [i \in DOMAIN calls |-> calls[i].req]

\* The call ran into a failure: a request that failed or was answered with
\* errors or without the expected identifier, or a missing access token.
Faulted(call) ==
    \/ call.token = ""
    \/ \E i \in DOMAIN call.calls : call.calls[i].out # "ok"

\* C17: a publisher call never throws, and a call that ran into any internal
\* failure returns success = false with an error message.
C17_NeverThrowsFailureOnFault ==
    pub.done =>
        /\ ~pub.threw
        /\ Faulted(pub) => (~pub.result.success /\ pub.result.error # "")

SubmitRequests == {"submit_self", "submit_image", "submit_gallery_post"}

Submitted(call) == \E i \in DOMAIN call.calls : call.calls[i].req \in SubmitRequests

\* C18: whatever the media shape, a Reddit submit answered with a non-empty
\* errors array gives success = false with the serialized errors as error
\* text, one answered without a post id gives success = false, and
\* success = true is returned only for an answer that carries a post id.
C18_RedditErrorsAndMissingIdFail ==
    (pub.done /\ pub.fn = "reddit" /\ Submitted(pub)) =>
        LET resp == pub.env.publish
        IN  /\ (resp.status = "ok" /\ resp.errors # <<>>) =>
                  /\ ~pub.result.success
                  /\ pub.result.error = "Reddit API error: " \o Stringify(resp.errors)
            /\ (resp.status = "ok" /\ ~resp.id) => ~pub.result.success
            /\ pub.result.success => (resp.status = "ok" /\ resp.id)

RECURSIVE Repeat(_, _)
Repeat(seq, n) == IF n = 0 THEN <<>> ELSE seq \o Repeat(seq, n - 1)

\* C19: with every upload succeeding, the requests of a Reddit call are
\* determined by the number of media items: none gives one self submit and
\* nothing else; one gives one asset upload, then one image submit that
\* refers to the asset; two or more give one upload per item, then one
\* submit_gallery_post that refers to all the assets in order.
C19_RedditPathByMediaCount ==
    ( /\ pub.done
      /\ pub.fn = "reddit"
      /\ \A i \in DOMAIN pub.env.upload : pub.env.upload[i] = "ok" ) =>
        LET n == Len(pub.media.items)
            uploads == Repeat(RedditUploadSteps, n)
        IN  /\ n = 0 => Requests(pub.calls) = <<"submit_self">>
            /\ n = 1 =>
                  /\ Requests(pub.calls) = uploads \o <<"submit_image">>
                  /\ pub.result.success => pub.payload = <<1>>
            /\ n > 1 =>
                  /\ Requests(pub.calls) = uploads \o <<"submit_gallery_post">>
                  /\ pub.result.success => pub.payload = [i \in 1 .. n |-> i]

\* C20: with media present and the OAuth 1.0a pair incomplete, a Twitter
\* call makes no upload request; given an access token its only request is
\* the tweet, with no media in the payload, and it returns success = true
\* when that request is answered 2xx with a JSON body.
C20_TextOnlyWithoutOAuth1aPair ==
    ( /\ pub.done
      /\ pub.fn = "twitter"
      /\ MediaPresent(pub.media)
      /\ pub.oauth1a # "both" ) =>
        /\ \A i \in DOMAIN pub.calls : pub.calls[i].req = "tweet"
        /\ pub.payload = <<>>
        /\ pub.token # "" =>
              /\ Requests(pub.calls) = <<"tweet">>
              /\ pub.env.publish.status = "ok" => pub.result.success

C20_MediaPostSentAsText ==
    /\ pub.done
    /\ pub.fn = "twitter"
    /\ pub.media = MediaArray(<<"jpg", "gif">>)
    /\ pub.oauth1a = "tokenOnly"
    /\ pub.calls = <<Call("tweet", "ok")>>
    /\ pub.payload = <<>>
    /\ pub.result = PubResult(TRUE, "id", "")

\* The upload of some item of a Twitter call fails at one of its steps.
TwitterUploadFails(input) ==
    /\ input.fn = "twitter"
    /\ MediaPresent(input.media)
    /\ HasOAuth1a(input.oauth1a)
    /\ \E i \in DOMAIN input.media.items :
          input.env.upload[i] \in Range(TwitterUploadSteps(input.media.items[i]))

\* C21: when a step of a Twitter media upload fails (source fetch, app
\* credentials, single-shot upload, INIT, APPEND, FINALIZE), postToTwitter,
\* given an access token, still makes the tweet request, with no media ids,
\* and its result is a success exactly when the tweet request is answered
\* well: the media failure alone never makes the result a failure.
C21_MediaFailureFallsBackToText ==
    (pub.done /\ TwitterUploadFails(pub) /\ pub.token # "")
        => /\ ~pub.threw
           /\ pub.calls # <<>>
           /\ pub.calls[Len(pub.calls)].req = "tweet"
           /\ \E k \in 1 .. Len(pub.calls) - 1 : pub.calls[k].out = "fail"
           /\ pub.payload = <<>>
           /\ pub.result.success <=> (pub.env.publish.status = "ok")

\* A two-item call whose first upload succeeds and whose second fails at
\* FINALIZE: the tweet goes out without media and the result is a success.
C21_SecondUploadFailsTweetSucceeds ==
    /\ pub.done
    /\ pub.fn = "twitter"
    /\ pub.token # ""
    /\ HasOAuth1a(pub.oauth1a)
    /\ pub.media = MediaArray(<<"jpg", "gif">>)
    /\ pub.env.upload = <<"ok", "FINALIZE">>
    /\ pub.env.publish.status = "ok"
    /\ pub.payload = <<>>
    /\ pub.result.success

TimeoutResult(a) ==
    a.state = "fulfilled" /\ ~a.success /\ a.error = "Twitter API timeout"

\* The attempts of run r for Twitter that are still awaited.
PendingTwitter(atts) == {k \in Pending(atts) : atts[k].platform = "twitter"}

\* The last entry for `pl` in the attempts: the one platformResults keeps.
LastFor(atts, pl) ==
    CHOOSE k \in DOMAIN atts :
        /\ atts[k].platform = pl
        /\ \A j \in DOMAIN atts : atts[j].platform = pl => j <= k

\* C22: the Twitter timer starts at the dispatch of the post and runs with
\* the time of the run; a Twitter call is never awaited beyond 5 s: at 5 s,
\* if it has not returned, its attempt settles as a failure with error
\* 'Twitter API timeout', and the aggregation that follows records that
\* result for twitter.  Only Twitter attempts ever get that result: the
\* LinkedIn and Reddit calls are awaited for as long as they take.
C22_TwitterTimeoutOnly ==
    [][\A r \in Runs :
          /\ (pc[r] = "loop" /\ pc'[r] = "awaiting") => timer'[r] = 0
          /\ (pc[r] = "awaiting" /\ PendingTwitter(attempts'[r]) # {})
                => /\ timer'[r] = timer[r] + (elapsed'[r] - elapsed[r])
                   /\ timer'[r] <= TwitterTimeout
          /\ pc[r] = "awaiting"
                => \A k \in Pending(attempts[r]) :
                      TimeoutResult(attempts'[r][k])
                         => /\ attempts[r][k].platform = "twitter"
                            /\ timer[r] = TwitterTimeout
          /\ (pc[r] = "awaiting" /\ pc'[r] # "awaiting")
                => /\ Pending(attempts[r]) = {}
                   /\ \A k \in DOMAIN attempts[r] :
                         (/\ TimeoutResult(attempts[r][k])
                          /\ k = LastFor(attempts[r], "twitter"))
                            => mem'[r].platformResults["twitter"]
                                  = [success |-> FALSE, error |-> "Twitter API timeout"]
      ]_vars

\* A post sent to twitter and reddit: the Twitter attempt has timed out and
\* the Reddit call is still awaited, more than 5 s after the dispatch.
C22_RedditAwaitedAfterTwitterTimeout ==
    \E r \in Runs :
        /\ pc[r] = "awaiting"
        /\ elapsed[r] > TwitterTimeout
        /\ \E k \in DOMAIN attempts[r] : TimeoutResult(attempts[r][k])
        /\ \E k \in Pending(attempts[r]) : attempts[r][k].platform = "reddit"

GifPhases == <<"INIT", "APPEND", "FINALIZE">>

\* C23: in a Twitter call the requests of a GIF upload are INIT, one APPEND
\* and FINALIZE, each made directly after the previous phase was answered
\* well; a failing phase ends the uploads (the next request, if any, is the
\* tweet); an upload whose FINALIZE reports processing_info returns its
\* media id at once (the id is attached when no upload fails) and no STATUS
\* request is ever made.
C23_GifPhasesInOrderNoPolling ==
    (pub.done /\ pub.fn = "twitter")
        => LET calls == pub.calls
               n == Len(calls)
           IN  /\ \A k \in 1 .. n : calls[k].req # "STATUS"
               /\ \A k \in 1 .. n : \A ph \in 2 .. 3 :
                     calls[k].req = GifPhases[ph]
                        => k > 1 /\ calls[k - 1] = Call(GifPhases[ph - 1], "ok")
               /\ \A k \in 1 .. n : \A ph \in 1 .. 2 :
                     calls[k] = Call(GifPhases[ph], "ok")
                        => k < n /\ calls[k + 1].req = GifPhases[ph + 1]
               /\ \A k \in 1 .. n :
                     (calls[k].req \in Range(GifPhases) /\ calls[k].out = "fail")
                        => k = n \/ (k + 1 = n /\ calls[n].req = "tweet")
               /\ Cardinality({k \in 1 .. n : calls[k].req = "INIT"})
                     <= Cardinality({i \in DOMAIN pub.media.items :
                                        pub.media.items[i] = "gif"})
               /\ (/\ MediaPresent(pub.media)
                   /\ HasOAuth1a(pub.oauth1a)
                   /\ ~TwitterUploadFails(pub)
                   /\ pub.result.success)
                     => \A i \in DOMAIN pub.media.items :
                           pub.env.upload[i] = "processing" => i \in Range(pub.payload)

\* One GIF whose FINALIZE reports processing_info: five upload requests, then
\* the tweet carrying the media id.
C23_ProcessingGifTweeted ==
    /\ pub.done
    /\ pub.fn = "twitter"
    /\ pub.media = MediaArray(<<"gif">>)
    /\ pub.env.upload = <<"processing">>
    /\ [k \in 1 .. Len(pub.calls) |-> pub.calls[k].req]
          = <<"fetch", "credentials", "INIT", "APPEND", "FINALIZE", "tweet">>
    /\ pub.payload = <<1>>
    /\ pub.result.success

\* The images postToLinkedin uploads: one for a media object, the first
\* four items of an array.
LinkedinImages(media) ==
    IF ~MediaPresent(media) THEN 0
    ELSE IF media.isArray THEN Min(LinkedinImageLimit, Len(media.items))
    ELSE 1

\* C24: the first request of postToLinkedin is userinfo; when it fails no
\* other request is made and the result is a failure; the ugcPosts request
\* is the last request, made only after every request before it was
\* answered well and every image was registered, fetched and put.
C24_LinkedinIdentityFirstPostLast ==
    (pub.done /\ pub.fn = "linkedin")
        => LET calls == pub.calls
               n == Len(calls)
           IN  /\ n >= 1
               /\ calls[1].req = "userinfo"
               /\ \A k \in 2 .. n : calls[k].req # "userinfo"
               /\ pub.env.userinfo # "ok"
                     => n = 1 /\ calls[1].out = "fail" /\ ~pub.result.success
               /\ \A k \in 1 .. n :
                     calls[k].req = "ugcPosts"
                        => /\ k = n
                           /\ \A j \in 1 .. k - 1 : calls[j].out = "ok"
                           /\ \A st \in Range(LinkedinUploadSteps) :
                                 Cardinality({j \in 1 .. k - 1 : calls[j].req = st})
                                    = LinkedinImages(pub.media)

\* Two images: the second PUT fails, no post is created.
C24_UploadFailsNoPostCreated ==
    /\ pub.done
    /\ pub.fn = "linkedin"
    /\ pub.media = MediaArray(<<"jpg", "jpg">>)
    /\ pub.env.upload = <<"ok", "put">>
    /\ Len(pub.calls) = 7
    /\ pub.calls[7] = Call("put", "fail")
    /\ ~pub.result.success

\* In the error messages of the model "status" stands for the remote HTTP
\* status (${response.status}) and "body" for the remote response body
\* (${errorData}).
Contains(s, t) ==
    \E i \in 1 .. Len(s) - Len(t) + 1 : SubSeq(s, i, i + Len(t) - 1) = t

\* C25: when the ugcPosts request of postToLinkedin is answered with a
\* non-2xx status, the error of the result contains the remote status and
\* the remote body.
C25_LinkedinErrorHasStatusAndBody ==
    (/\ pub.done
     /\ pub.fn = "linkedin"
     /\ pub.calls # <<>>
     /\ pub.calls[Len(pub.calls)] = Call("ugcPosts", "non2xx"))
        => /\ ~pub.result.success
           /\ Contains(pub.result.error, "status")
           /\ Contains(pub.result.error, "body")

\* C26: in every state reached by connect callbacks and disconnect requests
\* an account with connected = true has a non-empty accessToken.
C26_ConnectedHasAccessToken ==
    \A u \in DOMAIN accounts : \A pl \in Platforms :
        accounts[u][pl].connected => accounts[u][pl].accessToken # ""

\* The stored Twitter credentials are complete: the OAuth 2.0 access token
\* and the OAuth 1.0a token with its secret.
BothTwitterPairs(account) ==
    /\ account.oauth2AccessToken # ""
    /\ account.oauth1aAccessToken # ""
    /\ account.oauth1aAccessTokenSecret # ""

\* C27: the Twitter account is connected only with both credential pairs
\* stored; a step that stores the OAuth 2.0 token leaves connected = false
\* and needsOAuth1a = true; a step that sets connected = true starts from an
\* account holding the OAuth 2.0 token and ends with needsOAuth1a = false.
C27_TwitterConnectedNeedsBothPairs ==
    /\ [](\A u \in DOMAIN accounts :
             accounts[u]["twitter"].connected
                => BothTwitterPairs(accounts[u]["twitter"]))
    /\ [][\A u \in DOMAIN accounts :
             LET old == accounts[u]["twitter"]
                 new == accounts'[u]["twitter"]
             IN  /\ (new.oauth2AccessToken # "" /\ old.oauth2AccessToken = "")
                       => ~new.connected /\ new.needsOAuth1a
                 /\ (new.connected /\ ~old.connected)
                       => old.oauth2AccessToken # "" /\ ~new.needsOAuth1a
         ]_vars

\* The fields of a post that schedulePost sets and a run only reads.
Payload(doc) ==
    <<doc.userId, doc.content, doc.platforms, doc.scheduledTime, doc.media>>

\* C28: a step of a batch run leaves every user's connectedAccounts as they
\* are, removes no post and keeps each post's owner, content, platforms,
\* scheduledTime and media; it writes at most the status, platformResults,
\* publishedAt and errorMessage of the post the run is processing, or adds
\* one to the postsCount of the owner of that post once it is published.
C28_RunWritesOnlyResultsAndCount ==
    [][/\ accounts' = accounts
       /\ DOMAIN posts' = DOMAIN posts
       /\ \A p \in DOMAIN posts :
             /\ Payload(posts'[p]) = Payload(posts[p])
             /\ posts'[p] # posts[p]
                   => \E r \in Runs :
                         /\ pc[r] \in {"awaiting", "recover"}
                         /\ p = Current(r)
                         /\ postsCount' = postsCount
       /\ \A u \in DOMAIN postsCount :
             postsCount'[u] # postsCount[u]
                => \E r \in Runs :
                      /\ pc[r] = "counter"
                      /\ posts[Current(r)].userId = u
                      /\ posts[Current(r)].status = "published"
                      /\ postsCount'[u] = postsCount[u] + 1
                      /\ postsCount' = [postsCount EXCEPT ![u] = @ + 1]
                      /\ posts' = posts
      ]_vars

\* Both posts were processed, one published and counted, one failed, and
\* the accounts and the posts' payloads are as they were created.
C28_PublishedAndFailedPayloadKept ==
    /\ posts["p1"].status = "published"
    /\ counted["p1"] = 1
    /\ posts["p2"].status = "failed"
    /\ \A p \in PostIds :
          \E t \in ScheduledTimes : \E pls \in PlatformLists \cup {<<"reddit">>} :
             Payload(posts[p]) = Payload(NewPost("u1", pls, t))

\* C29: whatever schedule and delete requests are served, and however they
\* interleave, a user never owns more than 500 stored posts; a schedule
\* request whose count finds 500 posts or more is answered 400 and creates
\* nothing.
C29_NeverMoreThanQuotaPosts ==
    /\ [](\A u \in DOMAIN otherPosts : CountDocuments(u) <= PostQuota)
    /\ [][\A q \in DOMAIN requests :
             (/\ requests[q].op = "schedule"
              /\ requests[q].pc = "count"
              /\ requests'[q] # requests[q]
              /\ CountDocuments(requests[q].user) >= PostQuota)
                => /\ requests'[q].pc = "done"
                   /\ requests'[q].status = 400
                   /\ otherPosts' = otherPosts
                   /\ posts' = posts
         ]_vars

\* C30: whatever schedule requests, delete requests and batch runs happen,
\* a user's postsCount stays within 0 .. 500.
C30_PostsCountWithinQuota ==
    \A u \in DOMAIN postsCount : 0 <= postsCount[u] /\ postsCount[u] <= PostsCountMax

\* C31: every request to the cron endpoint is answered, once: never two
\* responses; the response is 200 when the run returned before the 9 s timer,
\* 500 when the run threw before it, 408 when 9 s passed with nothing sent;
\* once a response is sent, a later return or throw of the run sends nothing;
\* and under the runtime's scheduling a response is eventually sent.
ResponseCodes == {200, 500, 408}

AnsweredOnce == Len(responses) <= 1 /\ Range(responses) \subseteq ResponseCodes

NineSecondsAnswered ==
    (handler # "idle" /\ elapsed[1] > ResponseTimeout) => HeadersSent

ResponseStep ==
    /\ responses' # responses =>
          /\ responses = <<>>
          /\ Len(responses') = 1
          /\ responses'[1] = 200 => pc[1] = "done" /\ handler' = "finished"
          /\ responses'[1] = 500 => pc'[1] = "thrown" /\ pc[1] # "thrown"
          /\ responses'[1] = 408 => elapsed[1] >= ResponseTimeout /\ cronTimer' = "fired"
    /\ (handler = "awaiting" /\ handler' = "finished" /\ responses = <<>>) =>
          responses' = (IF pc'[1] = "thrown" THEN <<500>> ELSE <<200>>)

C31_EveryRequestAnsweredOnce ==
    /\ [](AnsweredOnce /\ NineSecondsAnswered)
    /\ [][ResponseStep]_vars
    /\ (handler = "awaiting" ~> Len(responses) = 1)

\* C31 witness: the run returned after the timer had answered 408, and the
\* handler sent nothing more.
C31_LateCompletionAfter408 ==
    /\ handler = "finished"
    /\ pc[1] = "done"
    /\ cronTimer = "fired"
    /\ responses = <<408>>

\* C32 (as stated): at the top of the loop the run goes on to the next selected
\* post if and only if at most 8 s (MAX_EXECUTION_TIME) have elapsed since
\* the run began.
LoopTop(r) == pc[r] = "loop" /\ idx[r] <= Len(batch[r])

LeavesLoopTop(r) == LoopTop(r) /\ pc'[r] # "loop"

C32_DispatchesUntilEightSeconds ==
    [][LeavesLoopTop(1) =>
          (pc'[1] = "awaiting" <=> elapsed[1] <= MAX_EXECUTION_TIME)]_vars

\* C32 (amended): at the top of the loop the run goes on to the next selected
\* post if and only if at most 6 s (MAX_EXECUTION_TIME less the 2 s margin)
\* have elapsed since the run began; otherwise it ends the loop.
C32_DispatchesUntilSixSeconds ==
    [][LeavesLoopTop(1) =>
          /\ pc'[1] = "awaiting" <=> elapsed[1] <= MAX_EXECUTION_TIME - BudgetMargin
          /\ pc'[1] = "done" <=> elapsed[1] > MAX_EXECUTION_TIME - BudgetMargin]_vars

\* C32 witness: a run ended its loop before a selected post with 7 s elapsed,
\* within the 8 s of MAX_EXECUTION_TIME.
C32_StoppedInsideEightSeconds ==
    /\ CutOff(1)
    /\ elapsed[1] = MAX_EXECUTION_TIME - BudgetMargin + 1
    /\ elapsed[1] <= MAX_EXECUTION_TIME

\* C33: within a run the selected posts are processed one after another: a
\* publisher is invoked only at the top of the loop, for the post at the
\* run's index, after the iteration of every earlier post of the batch has
\* ended with the post persisted or its failure handled by the catch; in
\* that one step every platform of the post is attempted, and the join
\* that follows waits until no attempt is pending.
PublisherInvoked(r) ==
    \E k \in DOMAIN attempts'[r] :
        /\ attempts'[r][k].state = "pending"
        /\ k \in DOMAIN attempts[r] => attempts[r][k].state # "pending"

IterationEnds(r) == idx[r] >= 1 /\ idx'[r] = idx[r] + 1

DispatchedTogether(atts, platforms) ==
    /\ DOMAIN atts = DOMAIN platforms
    /\ \A k \in DOMAIN atts :
          /\ atts[k].platform = platforms[k]
          /\ atts[k].called <=> atts[k].state = "pending"

C33_OnePostAtATime ==
    [][/\ PublisherInvoked(1) =>
             /\ pc[1] = "loop" /\ pc'[1] = "awaiting"
             /\ idx'[1] = idx[1]
             /\ DispatchedTogether(attempts'[1], posts[Current(1)].platforms)
       /\ SaveStep(1) => Pending(attempts[1]) = {}
       /\ IterationEnds(1) =>
             /\ pc[1] \in {"awaiting", "counter", "recover"}
             /\ pc'[1] = "loop"
             /\ Pending(attempts[1]) = {}
             /\ writes'[Current(1)] >= 1 \/ pc[1] = "recover"]_vars

\* C33 witness: the second post of the batch has both its publishers
\* running at once, the first post of the batch having been persisted.
C33_SecondPostBothPlatformsPending ==
    /\ pc[1] = "awaiting"
    /\ idx[1] = 2
    /\ Len(attempts[1]) = 2
    /\ Pending(attempts[1]) = {1, 2}
    /\ Terminal(batch[1][1])

\* C34: schedulePost creates a post only when the scheduledTime of the
\* request lies after the time at which the post is created.
C34_CreatedPostsLieInTheFuture ==
    \A q \in Reqs :
        requests[q].created => requests[q].scheduledTime > requests[q].createdAt

\* C35: the count a run returns as 'processed' equals the number of posts of
\* its batch that it left stored as 'published', and is at most the number
\* of posts selected, which is at most 5.
LeftPublished(r) == {k \in DOMAIN batch[r] : posts[batch[r][k]].status = "published"}

C35_ProcessedCountsPublishedPosts ==
    \A r \in Runs :
        pc[r] = "done" =>
            /\ processedCount[r] = Cardinality(LeftPublished(r))
            /\ processedCount[r] <= Len(batch[r])
            /\ Len(batch[r]) <= BatchLimit

\* C36: in postToReddit and postToLinkedin, when a step of the upload of a
\* media item fails, the failed request is the last request of the call: no
\* submit request and no ugcPosts request is made, with or without media,
\* and the result is a failure; postToTwitter in the same case goes on to
\* its tweet request.
UploadRequests == Range(RedditUploadSteps) \cup Range(LinkedinUploadSteps)

PostRequests == SubmitRequests \cup {"ugcPosts"}

UploadFailedAt(calls) ==
    {k \in DOMAIN calls : calls[k].req \in UploadRequests /\ calls[k].out = "fail"}

C36_UploadFailureStopsRedditAndLinkedin ==
    /\ (pub.done /\ pub.fn \in {"reddit", "linkedin"} /\ UploadFailedAt(pub.calls) # {})
          => /\ UploadFailedAt(pub.calls) = {Len(pub.calls)}
             /\ \A k \in DOMAIN pub.calls : pub.calls[k].req \notin PostRequests
             /\ pub.payload = <<>>
             /\ ~pub.result.success
    /\ (pub.done /\ pub.fn = "twitter" /\ TwitterUploadFails(pub) /\ pub.token # "")
          => pub.calls[Len(pub.calls)].req = "tweet"

\* C36 witness: a Reddit gallery of two images whose second upload fails at
\* the PUT: the first image was uploaded, nothing is submitted.
C36_RedditSecondUploadFailsNothingSubmitted ==
    /\ pub.done
    /\ pub.fn = "reddit"
    /\ pub.media = MediaArray(<<"jpg", "jpg">>)
    /\ pub.env.upload = <<"ok", "put">>
    /\ pub.calls[Len(pub.calls)] = Call("put", "fail")
    /\ Len(pub.calls) = 6
    /\ ~pub.result.success

\* A step that takes the account of u for pl from connected to not connected.
DisconnectStep(u, pl) == accounts[u][pl].connected /\ ~accounts'[u][pl].connected

Cleared(account) ==
    /\ ~account.connected
    /\ account.accessToken = ""
    /\ account.refreshToken = ""
    /\ account.oauth1aAccessToken = ""
    /\ account.oauth1aAccessTokenSecret = ""

\* The effect of a disconnect: the account is cleared, every other account
\* of the user and of every other user, and the posts, stay as they were.
DisconnectEffect ==
    \A u \in DOMAIN accounts : \A pl \in Platforms :
        DisconnectStep(u, pl) =>
            /\ Cleared(accounts'[u][pl])
            /\ \A v \in DOMAIN accounts : \A other \in Platforms :
                  <<v, other>> # <<u, pl>> => accounts'[v][other] = accounts[v][other]
            /\ UNCHANGED <<posts, postsCount>>

DispatchStep(r) == pc[r] = "loop" /\ pc'[r] = "awaiting"

NotConnectedResult(pl) ==
    Attempt(pl, "fulfilled", FALSE, FALSE, pl \o " account not connected")

\* At a dispatch, every platform whose account reads not connected in
\* `users` gets the precondition failure and its publisher is not called.
RefusedWhereDisconnected(r, users) ==
    \A k \in DOMAIN attempts'[r] :
        LET pl == attempts'[r][k].platform
        IN  ~users[posts[Current(r)].userId][pl].connected
               => attempts'[r][k] = NotConnectedResult(pl)

\* C37 (as stated): a disconnect clears the account and leaves the rest
\* alone, and from then on, until the account is connected again, no
\* dispatch of a batch run calls the publisher of that platform: the
\* attempt is the 'not connected' failure.
C37_NoPublisherCallOnceDisconnected ==
    [][/\ DisconnectEffect
       /\ DispatchStep(1) => RefusedWhereDisconnected(1, accounts)]_vars

\* C37 (amended): a disconnect clears the account and leaves the rest
\* alone; a run reads the users with its due-post query and at no other
\* time; every dispatch of a run whose query found the account not
\* connected records the 'not connected' failure without calling the
\* publisher; and an account goes back to connected only by a step that is
\* not a step of a run.
C37_RunsQueryingAfterDisconnectRefuse ==
    [][/\ DisconnectEffect
       /\ populated' # populated
             => /\ runsStarted' = runsStarted + 1
                /\ populated'[1] = accounts
       /\ DispatchStep(1) => RefusedWhereDisconnected(1, populated[1])
       /\ \A u \in DOMAIN accounts : \A pl \in Platforms :
             (~accounts[u][pl].connected /\ accounts'[u][pl].connected)
                => UNCHANGED <<runVars, posts, populated>>]_vars

\* C37 witness: Reddit was disconnected before the run's query; the post for
\* Twitter and Reddit has its Twitter publisher running and the Reddit
\* failure recorded, and the other user's accounts are as they were.
C37_RedditRefusedTwitterCalled ==
    /\ pc[1] = "awaiting"
    /\ Cleared(accounts["u1"]["reddit"])
    /\ populated[1] = accounts
    /\ attempts[1][1].state = "pending"
    /\ attempts[1][2] = NotConnectedResult("reddit")
    /\ accounts["u1"]["twitter"] = ConnectedAccounts["twitter"]
    /\ accounts["u2"] = ConnectedAccounts

\* C38: an account is written only by a callback that the account's owner
\* presents: the user named by the state or userId parameter of a callback
\* that writes an account is the party that presented the callback.
OwnFlow(write) == write.by = write.user

C38_AccountsWrittenOnlyByOwnFlow == flows.last # NoWrite => OwnFlow(flows.last)

KeysAscending(order) ==
    \A i, j \in DOMAIN order : i < j => Less(order[i].key, order[j].key)

ParameterString(order) ==
    Join([i \in DOMAIN order |->
             EncodeURIComponent(order[i].key) \o "="
                \o EncodeURIComponent(order[i].value)], "&")

StatedBaseString ==
    LET ascending == CHOOSE order \in Arrangements(Range(pub.params), Len(pub.params)) :
                        KeysAscending(order)
    IN  ToUpperCase(pub.method) \o "&" \o EncodeURIComponent(pub.url) \o "&"
           \o EncodeURIComponent(ParameterString(ascending))

NeedsEncoding(s) == EncodeURIComponent(s) # s

\* C39: generateOAuthSignature signs the base string made of the upper-cased
\* method, the encoded URL and the encoded parameter string with the
\* parameters in ascending key order, joined by "&"; the signature of the
\* same parameters inserted in any other order is the same, and the
\* scheduler's copy and the handler's copy return the same value.
C39_SignatureOfSortedEncodedParameters ==
    /\ pub.scheduler # NoSignature => pub.scheduler.data = StatedBaseString
    /\ pub.handler # NoSignature => pub.handler.data = StatedBaseString
    /\ (pub.scheduler # NoSignature /\ pub.reordered # NoSignature)
          => pub.reordered = pub.scheduler
    /\ (pub.scheduler # NoSignature /\ pub.handler # NoSignature)
          => pub.handler = pub.scheduler

C39_ReorderedEncodedParametersSameSignature ==
    /\ pub.scheduler # NoSignature
    /\ pub.handler = pub.scheduler
    /\ pub.reordered = pub.scheduler
    /\ Len(pub.params) >= 2
    /\ pub.inserted # pub.params
    /\ ~KeysAscending(pub.params)
    /\ pub.method # ToUpperCase(pub.method)
    /\ \E i \in DOMAIN pub.params :
          NeedsEncoding(pub.params[i].key) /\ NeedsEncoding(pub.params[i].value)

====
